---- MODULE Spec2Model ----
(***************************************************************************)
(* HotFlow: the Taobao Alliance client (signing, request building, item   *)
(* normalisation, pagination), the copy generator's reply parsing, the    *)
(* storage calls and the pipeline on top of them (as single calls and     *)
(* step by step), two store_items calls racing on one database, the       *)
(* configuration loader and the price lines of the prompt.                *)
(*                                                                         *)
(* Text is a sequence of characters, so that sorting, trimming, searching *)
(* and parsing are computed and not assumed.  Python's None is a tagged   *)
(* value of the type it stands in for.                                     *)
(***************************************************************************)
EXTENDS Integers, Sequences, FiniteSets, TLC

VARIABLES
    fcfg,       \* fetch_many's arguments: keyword, pages, page_size, delay
    fpc,        \* fetch_many's position: "loop", "break", "returned", "raised"
    page,       \* the loop variable of fetch_many (next page number to request)
    collected,  \* fetch_many's list of Items
    flog,       \* what fetch_many did to the outside: page requests and sleeps
    responses,  \* the upstream responses received so far, one per request
    fresult,    \* what fetch_many gave its caller
    sgIn,       \* sign: two parameter mappings and a secret
    sgOut,      \* sign: the two signatures
    rqIn,       \* search: the caller's arguments and the client's fields
    rqOut,      \* search: the signed parameters handed to _request
    raw,        \* _parse_item: one upstream result entry
    parsed,     \* _parse_item: the Item built, or the exception raised
    gIn,        \* generate: the model's reply, the platform list, variants
    gOut,       \* generate: the creatives returned, or the exception raised
    dbItems,    \* the rows of table taoke_items
    dbCreatives,\* the rows of table creatives
    dbNextId,   \* the supply of fresh creative ids (uuid4)
    dbCall,     \* the storage call made last, and how it ended
    cfgIn,      \* load_settings: the environment and the keyword overrides
    cfgOut,     \* load_settings: the Settings' llm field, or the exception raised
    rcEngine,   \* two concurrent store_items: how the database isolates writers
    rcItems,    \* two concurrent store_items: the committed rows of taoke_items
    rcTx,       \* two concurrent store_items: each caller's transaction
    rcCommits,  \* two concurrent store_items: the callers in commit order
    fsArgs,     \* fetch_and_store: keywords, pages, page_size, the table before
    fsPc,       \* fetch_and_store: "fetch", "store", "returned", "raised"
    fsKw,       \* fetch_and_store: index of the keyword the loop is at
    fsPage,     \* fetch_and_store: fetch_many's page for that keyword
    fsCollected,\* fetch_and_store: fetch_many's list for that keyword
    fsTable,    \* fetch_and_store: the rows of taoke_items
    fsTotal,    \* fetch_and_store: total_items
    fsExc,      \* fetch_and_store: the exception that left the call
    fsLog,      \* fetch_and_store: the page requests and the stores, in order
    gsArgs,     \* generate_and_store_creatives: the items fetched, the table before
    gsPc,       \* generate_and_store_creatives: "generate", "store", "returned", "raised"
    gsK,        \* generate_and_store_creatives: index of the item the loop is at
    gsGenerated,\* generate_and_store_creatives: the creatives of that item
    gsAll,      \* generate_and_store_creatives: all_creatives
    gsStored,   \* generate_and_store_creatives: the creatives committed, in order
    gsTable,    \* generate_and_store_creatives: the rows of creatives
    gsNextId,   \* generate_and_store_creatives: the supply of fresh creative ids
    gsExc,      \* generate_and_store_creatives: the exception that left the call
    bpIn,       \* build_prompt: the Item's price and coupon_price
    bpOut       \* build_prompt: the price lines of the prompt

vars == <<fcfg, fpc, page, collected, flog, responses, fresult,
          sgIn, sgOut, rqIn, rqOut, raw, parsed, gIn, gOut,
          dbItems, dbCreatives, dbNextId, dbCall,
          cfgIn, cfgOut, rcEngine, rcItems, rcTx, rcCommits,
          fsArgs, fsPc, fsKw, fsPage, fsCollected, fsTable, fsTotal, fsExc, fsLog,
          gsArgs, gsPc, gsK, gsGenerated, gsAll, gsStored, gsTable, gsNextId, gsExc,
          bpIn, bpOut>>

fetchVars == <<fcfg, fpc, page, collected, flog, responses, fresult>>
signVars  == <<sgIn, sgOut>>
reqVars   == <<rqIn, rqOut>>
parseVars == <<raw, parsed>>
genVars   == <<gIn, gOut>>
storeVars == <<dbItems, dbCreatives, dbNextId, dbCall>>
cfgVars   == <<cfgIn, cfgOut>>
raceVars  == <<rcEngine, rcItems, rcTx, rcCommits>>
fsVars    == <<fsArgs, fsPc, fsKw, fsPage, fsCollected, fsTable, fsTotal, fsExc, fsLog>>
gsVars    == <<gsArgs, gsPc, gsK, gsGenerated, gsAll, gsStored, gsTable, gsNextId, gsExc>>
bpVars    == <<bpIn, bpOut>>

-----------------------------------------------------------------------------
(* Generic helpers on sequences and text.                                  *)

RECURSIVE Flatten(_)
Flatten(ss) == IF ss = <<>> THEN <<>> ELSE Head(ss) \o Flatten(Tail(ss))

Last(s) == s[Len(s)]

\* the characters of the model's texts, in code point order ("bt" is the
\* backtick, which a TLA+ string cannot hold)
Alphabet == <<" ", "-", ".", "0", "1", "2", "3", "4", "5", "6", "7", "8", "9",
              ":", "A", "B", "C", "D", "E", "F", "I", "N", "S", "[", "]", "_",
              "bt", "a", "b", "c", "d", "e", "f", "g", "h", "i", "j", "k", "l",
              "m", "n", "o", "p", "q", "r", "s", "t", "u", "v", "w", "x", "y",
              "z", "{", "}">>

Ord(c) == CHOOSE i \in 1..Len(Alphabet) : Alphabet[i] = c

\* Python's str < str: lexicographic by code point
RECURSIVE StrLess(_, _)
StrLess(a, b) ==
    IF b = <<>> THEN FALSE
    ELSE IF a = <<>> THEN TRUE
    ELSE IF Head(a) = Head(b) THEN StrLess(Tail(a), Tail(b))
    ELSE Ord(Head(a)) < Ord(Head(b))

Digits == <<"0", "1", "2", "3", "4", "5", "6", "7", "8", "9">>
IsDigit(c) == \E i \in 1..10 : Digits[i] = c
DigitVal(c) == (CHOOSE i \in 1..10 : Digits[i] = c) - 1

\* str(n) for an integer n
RECURSIVE NatStr(_)
NatStr(n) == IF n < 10 THEN <<Digits[n + 1]>>
             ELSE NatStr(n \div 10) \o <<Digits[(n % 10) + 1]>>
IntStr(n) == IF n < 0 THEN <<"-">> \o NatStr(-n) ELSE NatStr(n)

-----------------------------------------------------------------------------
(* decimal.Decimal, as far as _parse_item uses it.  A finite value is an   *)
(* integer count of 1/Scale units; the default context traps              *)
(* InvalidOperation, so an operation that signals it raises.              *)

Scale == 10000

NoneDec   == [k |-> "none", v |-> 0]
NaN       == [k |-> "nan", v |-> 0]
SNaN      == [k |-> "snan", v |-> 0]
Inf(sgn)  == [k |-> "inf", v |-> sgn]
Fin(n)    == [k |-> "fin", v |-> n]
RaisedDec == [k |-> "raise", v |-> 0]

RECURSIVE DigitsVal(_, _)
DigitsVal(s, acc) ==
    IF s = <<>> THEN acc ELSE DigitsVal(Tail(s), acc * 10 + DigitVal(Head(s)))

AllDigits(s) == s # <<>> /\ \A i \in 1..Len(s) : IsDigit(s[i])

Pow10(n) == IF n = 0 THEN 1 ELSE IF n = 1 THEN 10 ELSE IF n = 2 THEN 100
            ELSE IF n = 3 THEN 1000 ELSE 10000

PointAt(s) == IF \E i \in 1..Len(s) : s[i] = "."
              THEN CHOOSE i \in 1..Len(s) : s[i] = "." /\ \A j \in 1..(i-1) : s[j] # "."
              ELSE 0

\* the unsigned part of a numeric literal: digits, or digits "." digits
\* (at most four fraction digits), else a special value, else no number
NumBody(s) ==
    LET p == PointAt(s) IN
    IF s = <<"N", "a", "N">> THEN NaN
    ELSE IF s = <<"s", "N", "a", "N">> THEN SNaN
    ELSE IF s = <<"I", "n", "f", "i", "n", "i", "t", "y">> THEN Inf(1)
    ELSE IF AllDigits(s) THEN Fin(DigitsVal(s, 0) * Scale)
    ELSE IF p > 0 /\ AllDigits(SubSeq(s, 1, p - 1)) /\ AllDigits(SubSeq(s, p + 1, Len(s)))
            /\ Len(s) - p <= 4
         THEN Fin(DigitsVal(SubSeq(s, 1, p - 1), 0) * Scale
                  + DigitsVal(SubSeq(s, p + 1, Len(s)), 0) * (Scale \div Pow10(Len(s) - p)))
    ELSE RaisedDec

\* Decimal(text): RaisedDec stands for the InvalidOperation of a bad literal
DecimalOf(s) ==
    IF s # <<>> /\ Head(s) = "-"
    THEN LET b == NumBody(Tail(s)) IN
         IF b.k \in {"fin", "inf"} THEN [b EXCEPT !.v = -b.v] ELSE b
    ELSE NumBody(s)

\* a field of an upstream entry: the key is missing, null, or a text
Absent   == [t |-> "absent", s |-> <<>>]
Null     == [t |-> "null", s |-> <<>>]
Text(s)  == [t |-> "str", s |-> s]

\* raw.get(key): None for a missing key and for null
IsNone(f) == f.t \in {"absent", "null"}
\* Python truth of raw.get(key)
Truthy(f) == f.t = "str" /\ f.s # <<>>

_safe_decimal(value) ==
    IF IsNone(value) \/ value.s = <<>> THEN NoneDec
    ELSE LET d == DecimalOf(value.s) IN
         IF d.k = "raise" THEN NoneDec ELSE d

NoneInt == [k |-> "none", v |-> 0]
SomeInt(n) == [k |-> "int", v |-> n]

\* int(x) of a float x truncates toward zero
Trunc(v) == IF v >= 0 THEN v \div Scale ELSE -((-v) \div Scale)

_safe_int(value) ==
    IF IsNone(value) \/ value.s = <<>> THEN NoneInt
    ELSE LET d == DecimalOf(value.s) IN
         IF d.k = "fin" THEN SomeInt(Trunc(d.v)) ELSE NoneInt

\* bool(d) as `a or b` uses it: None and zero are false, NaN is true
DecTruthy(d) == d.k # "none" /\ ~(d.k = "fin" /\ d.v = 0)

\* a - b
DecSub(a, b) ==
    IF a.k = "snan" \/ b.k = "snan" THEN RaisedDec
    ELSE IF a.k = "nan" \/ b.k = "nan" THEN NaN
    ELSE IF a.k = "inf" /\ b.k = "inf" THEN (IF a.v = b.v THEN RaisedDec ELSE a)
    ELSE IF a.k = "inf" THEN a
    ELSE IF b.k = "inf" THEN Inf(-b.v)
    ELSE Fin(a.v - b.v)

\* a < Decimal("0"): "yes", "no", or "raise" (an ordering comparison with a NaN)
DecNegative(a) ==
    IF a.k \in {"nan", "snan"} THEN "raise"
    ELSE IF a.v < 0 THEN "yes" ELSE "no"

Hundred == 100

\* a / Decimal("100")
DecDivHundred(a) ==
    IF a.k = "snan" THEN RaisedDec
    ELSE IF a.k = "fin" THEN Fin(IF a.v >= 0 THEN a.v \div Hundred ELSE -((-a.v) \div Hundred))
    ELSE a

-----------------------------------------------------------------------------
(* TaobaoClient._parse_item.  The entry's fields that are only copied into *)
(* the Item (title, urls, shop title, coupon text) are left out.           *)

RawFields == {"item_id", "zk_final_price", "reserve_price", "coupon_amount",
              "commission_rate", "volume", "month_sales", "shop_dsr"}

EmptyEntry == [f \in RawFields |-> Absent]

\* `if entry` in search: an empty mapping is false
EntryTruthy(entry) == \E f \in RawFields : entry[f].t # "absent"

\* raw.get("volume") or raw.get("month_sales")
FirstTruthy(a, b) == IF Truthy(a) THEN a ELSE b

NoItem == [item_id |-> 0, category |-> "", price |-> NoneDec, coupon_price |-> NoneDec,
           commission_rate |-> NoneDec, monthly_sales |-> NoneInt,
           shop_score |-> NoneDec, tags |-> <<>>]

Built(item)  == [kind |-> "item", exc |-> "", item |-> item]
Raised(exc)  == [kind |-> "raise", exc |-> exc, item |-> NoItem]
Pending      == [kind |-> "pending", exc |-> "", item |-> NoItem]

\* original_price = _safe_decimal(raw.get("reserve_price")) or price
OriginalPriceFinalFirst(reserve, price) == IF DecTruthy(price) THEN price ELSE reserve
OriginalPrice(reserve, price) == IF DecTruthy(reserve) THEN reserve ELSE price

\* lines 117-121: the coupon price, RaisedDec when the arithmetic raises
CouponPrice(price, coupon_amount) ==
    IF price.k # "none" /\ coupon_amount.k # "none"
    THEN LET d == DecSub(price, coupon_amount) IN
         IF d.k = "raise" THEN RaisedDec
         ELSE IF DecNegative(d) = "raise" THEN RaisedDec
         ELSE IF DecNegative(d) = "yes" THEN Fin(0)
         ELSE d
    ELSE price

\* lines 123-125
CommissionRate(c) == IF c.k # "none" THEN DecDivHundred(c) ELSE c

\* int(raw["item_id"]): the integer, or the exception's name
ItemId(f) ==
    IF f.t = "absent" THEN Raised("KeyError")
    ELSE IF f.t = "null" THEN Raised("TypeError")
    ELSE LET body == IF f.s # <<>> /\ Head(f.s) = "-" THEN Tail(f.s) ELSE f.s IN
         IF AllDigits(body)
         THEN Built([NoItem EXCEPT !.item_id =
                        IF body = f.s THEN DigitsVal(body, 0) ELSE -DigitsVal(body, 0)])
         ELSE Raised("ValueError")

_parse_item(entry, keyword) ==
    LET price           == _safe_decimal(entry["zk_final_price"])
        original_price  == OriginalPrice(_safe_decimal(entry["reserve_price"]), price)
        coupon_amount   == _safe_decimal(entry["coupon_amount"])
        coupon_price    == CouponPrice(price, coupon_amount)
        commission_rate == CommissionRate(_safe_decimal(entry["commission_rate"]))
        monthly_sales   == _safe_int(FirstTruthy(entry["volume"], entry["month_sales"]))
        shop_score      == _safe_decimal(entry["shop_dsr"])
        id              == ItemId(entry["item_id"])
    IN  IF coupon_price.k = "raise" THEN Raised("InvalidOperation")
        ELSE IF commission_rate.k = "raise" THEN Raised("InvalidOperation")
        ELSE IF id.kind = "raise" THEN id
        ELSE Built([item_id         |-> id.item.item_id,
                    category        |-> keyword,
                    price           |-> original_price,
                    coupon_price    |-> coupon_price,
                    commission_rate |-> commission_rate,
                    monthly_sales   |-> monthly_sales,
                    shop_score      |-> shop_score,
                    tags            |-> <<keyword>>])

\* the upstream values the model draws each field from
T_empty == <<>>
T_junk  == <<"x">>
T_0     == <<"0">>
T_1     == <<"1">>
T_2     == <<"2">>
T_3     == <<"3">>
T_7     == <<"7">>
T_15    == <<"1", "5">>
T_m1    == <<"-", "1">>
T_1p5   == <<"1", ".", "5">>
T_12p7  == <<"1", "2", ".", "7">>
T_NaN   == <<"N", "a", "N">>
T_sNaN  == <<"s", "N", "a", "N">>
T_Inf   == <<"I", "n", "f", "i", "n", "i", "t", "y">>
T_mInf  == <<"-">> \o T_Inf

FinalPriceValues == {Absent} \cup {Text(t) : t \in {T_empty, T_junk, T_0, T_2, T_m1,
                                                    T_1p5, T_NaN, T_Inf, T_mInf}}
ReservePriceValues == {Absent} \cup {Text(t) : t \in {T_0, T_1, T_3, T_NaN}}
CouponAmountValues == {Absent} \cup {Text(t) : t \in {T_empty, T_1, T_3, T_m1, T_NaN, T_Inf}}
CommissionValues   == {Absent} \cup {Text(t) : t \in {T_15, T_sNaN}}
VolumeValues       == {Absent} \cup {Text(t) : t \in {T_12p7, T_NaN}}
MonthSalesValues   == {Absent, Text(T_3)}
ShopDsrValues      == {Absent, Text(T_junk)}
ItemIdValues       == {Absent, Null, Text(T_7), Text(T_junk)}

RawEntries ==
    {[item_id |-> id, zk_final_price |-> fp, reserve_price |-> rp, coupon_amount |-> ca,
      commission_rate |-> cr, volume |-> vo, month_sales |-> ms, shop_dsr |-> sd] :
        id \in ItemIdValues, fp \in FinalPriceValues, rp \in ReservePriceValues,
        ca \in CouponAmountValues, cr \in CommissionValues, vo \in VolumeValues,
        ms \in MonthSalesValues, sd \in ShopDsrValues}

Keyword == "k1"

-----------------------------------------------------------------------------
(* TaobaoClient._request, search and fetch_many.                           *)

MaxPages    == 3     \* largest `pages` argument
MaxPageSize == 2     \* largest `page_size` argument
MaxEntries  == 2     \* longest map_data list of one response

NoneStr == "None"

NoEnvelope == [present |-> FALSE, code |-> NoneStr, msg |-> NoneStr, sub_msg |-> NoneStr]
Envelope(code, msg, sub_msg) ==
    [present |-> TRUE, code |-> code, msg |-> msg, sub_msg |-> sub_msg]
Envelopes  == {Envelope("15", "", "isv.invalid-parameter"),
               Envelope("15", "Remote service error", NoneStr),
               Envelope("15", "Remote service error", "isv.invalid-parameter"),
               Envelope(NoneStr, NoneStr, NoneStr)}

EntryA    == [EmptyEntry EXCEPT !["item_id"] = Text(T_1), !["zk_final_price"] = Text(T_2)]
EntryB    == [EmptyEntry EXCEPT !["item_id"] = Text(T_2), !["zk_final_price"] = Text(T_3),
                                !["coupon_amount"] = Text(T_1)]
NoIdEntry == [EmptyEntry EXCEPT !["zk_final_price"] = Text(T_2)]

SeqsUpTo(set, n) == UNION {[1..k -> set] : k \in 0..n}

\* the entries A, B, A, ... (or B, A, B, ...), n of them
Alternating(first, second, n) == [i \in 1..n |-> IF i % 2 = 1 THEN first ELSE second]

\* the map_data lists the upstream answers with
EntryLists ==
    {Alternating(EntryA, EntryB, n) : n \in 0..MaxEntries}
    \cup {Alternating(EntryB, EntryA, n) : n \in 0..MaxEntries}
    \cup {<<EmptyEntry>>, <<EmptyEntry, EntryB>>, <<EntryA, NoIdEntry>>}

\* a response of session.get: a failed status or an undecodable body
\* ("http_error"), or a decoded body with or without an error envelope
Responses ==
    {[kind |-> "http_error", err |-> NoEnvelope, entries |-> <<>>]}
    \cup {[kind |-> "json", err |-> e, entries |-> <<>>] : e \in Envelopes}
    \cup {[kind |-> "json", err |-> NoEnvelope, entries |-> es] : es \in EntryLists}

NoExc == [type |-> "", code |-> NoneStr, message |-> NoneStr]
Exc(type) == [type |-> type, code |-> NoneStr, message |-> NoneStr]

\* error.get("msg") or error.get("sub_msg")
ErrorMessage(err) == IF err.msg \notin {NoneStr, ""} THEN err.msg ELSE err.sub_msg

Payload(entries) == [kind |-> "payload", exc |-> NoExc, entries |-> entries]
RequestRaised(x) == [kind |-> "raise", exc |-> x, entries |-> <<>>]

_request_swallowing(resp) ==
    IF resp.kind = "http_error" THEN RequestRaised(Exc("HTTPError"))
    ELSE Payload(resp.entries)

_request(resp) ==
    IF resp.kind = "http_error" THEN RequestRaised(Exc("HTTPError"))
    ELSE IF resp.err.present
    THEN RequestRaised([type |-> "TaobaoAPIError", code |-> resp.err.code,
                        message |-> ErrorMessage(resp.err)])
    ELSE Payload(resp.entries)

SearchOk(items)  == [kind |-> "result", exc |-> NoExc, items |-> items]
SearchRaised(x)  == [kind |-> "raise", exc |-> x, items |-> <<>>]

\* [self._parse_item(entry, keyword) for entry in result_list if entry]
ParseAll(entries, keyword) ==
    LET kept == SelectSeq(entries, EntryTruthy)
    IN  [i \in 1..Len(kept) |-> _parse_item(kept[i], keyword)]

\* line 184 once every entry is parsed: the first exception raised, else the Items
CollectItems(outs) ==
    IF \E i \in 1..Len(outs) : outs[i].kind = "raise"
    THEN SearchRaised(Exc(outs[CHOOSE i \in 1..Len(outs) :
                                  /\ outs[i].kind = "raise"
                                  /\ \A j \in 1..(i - 1) : outs[j].kind # "raise"].exc))
    ELSE SearchOk([i \in 1..Len(outs) |-> outs[i].item])

\* lines 183-186 on what _request gave
SearchOf(payload, keyword) ==
    IF payload.kind = "raise" THEN SearchRaised(payload.exc)
    ELSE CollectItems(ParseAll(payload.entries, keyword))

search(keyword, resp) == SearchOf(_request(resp), keyword)

\* line 204: collected.extend(result.items)
ExtendReversed(list, items) == items \o list
Extend(list, items) == list \o items

\* line 205: len(result.items) < page_size
ShortPageNever(items, page_size) == FALSE
ShortPage(items, page_size) == Len(items) < page_size

Running     == [kind |-> "running", exc |-> NoExc, items |-> <<>>]
Returned(l) == [kind |-> "return", exc |-> NoExc, items |-> l]
Threw(x)    == [kind |-> "raise", exc |-> x, items |-> <<>>]

LogRequest(p, size) == [ev |-> "request", page_no |-> p, arg |-> size]
LogSleep(p, delay)  == [ev |-> "sleep", page_no |-> p, arg |-> delay]

FetchInit ==
    /\ fcfg \in [keyword : {Keyword}, pages : 0..MaxPages,
                 page_size : 1..MaxPageSize, delay : {0, 1}]
    /\ fpc = "loop"
    /\ page = 1
    /\ collected = <<>>
    /\ flog = <<>>
    /\ responses = <<>>
    /\ fresult = Running

\* lines 202-208 on the SearchResult (or exception) of the page just requested
FetchStep(result) ==
    /\ flog' = flog \o <<LogRequest(page, fcfg.page_size)>>
                    \o (IF /\ result.kind = "result"
                           /\ result.items # <<>>
                           /\ ~ShortPage(result.items, fcfg.page_size)
                           /\ fcfg.delay # 0
                        THEN <<LogSleep(page, fcfg.delay)>> ELSE <<>>)
    /\ IF result.kind = "raise"
       THEN /\ fpc' = "raised"
            /\ fresult' = Threw(result.exc)
            /\ UNCHANGED <<page, collected>>
       ELSE IF result.items = <<>>
       THEN /\ fpc' = "break"
            /\ UNCHANGED <<page, collected, fresult>>
       ELSE /\ collected' = Extend(collected, result.items)
            /\ IF ShortPage(result.items, fcfg.page_size)
               THEN fpc' = "break" /\ page' = page
               ELSE fpc' = "loop" /\ page' = page + 1
            /\ UNCHANGED fresult

\* one iteration of `for page in range(1, pages + 1)`, lines 200-208
FetchPage ==
    /\ fpc = "loop"
    /\ page <= fcfg.pages
    /\ \E resp \in Responses :
          /\ responses' = Append(responses, resp)
          /\ FetchStep(search(fcfg.keyword, resp))
    /\ UNCHANGED fcfg

\* line 209: return collected
FetchReturn ==
    /\ \/ fpc = "break"
       \/ fpc = "loop" /\ page > fcfg.pages
    /\ fpc' = "returned"
    /\ fresult' = Returned(collected)
    /\ UNCHANGED <<fcfg, page, collected, flog, responses>>

-----------------------------------------------------------------------------
(* One entry through _parse_item.                                          *)

ParseInit ==
    /\ raw \in RawEntries
    /\ parsed = Pending

ParseIdle ==
    /\ raw = EmptyEntry
    /\ parsed = Pending

ParseItem ==
    /\ parsed = Pending
    /\ parsed' = _parse_item(raw, Keyword)
    /\ UNCHANGED raw

FetchIdle ==
    /\ fcfg = [keyword |-> Keyword, pages |-> 0, page_size |-> 1, delay |-> 0]
    /\ fpc = "idle"
    /\ page = 1
    /\ collected = <<>>
    /\ flog = <<>>
    /\ responses = <<>>
    /\ fresult = Running

-----------------------------------------------------------------------------
(* TaobaoClient.sign and _build_params.  A parameter mapping is a dict:    *)
(* the sequence of its <<name, value>> pairs in insertion order, names     *)
(* distinct.  A value is None, a text or an integer.                       *)

PNone    == [t |-> "none", s |-> <<>>, i |-> 0]
PStr(s)  == [t |-> "str", s |-> s, i |-> 0]
PInt(n)  == [t |-> "int", s |-> <<>>, i |-> n]

\* f"{value}"
Format(v) == IF v.t = "int" THEN IntStr(v.i)
             ELSE IF v.t = "none" THEN <<"N", "o", "n", "e">>
             ELSE v.s

DictKeys(d)   == {d[i][1] : i \in 1..Len(d)}
DictHas(d, k) == k \in DictKeys(d)
DictGet(d, k) == d[CHOOSE i \in 1..Len(d) : d[i][1] = k][2]

\* d[k] = v: an existing name keeps its place, a new one goes last
DictSet(d, k, v) ==
    IF DictHas(d, k)
    THEN [i \in 1..Len(d) |-> IF d[i][1] = k THEN <<k, v>> ELSE d[i]]
    ELSE Append(d, <<k, v>>)

\* d.update(e)
RECURSIVE DictUpdate(_, _)
DictUpdate(d, e) ==
    IF e = <<>> THEN d ELSE DictUpdate(DictSet(d, Head(e)[1], Head(e)[2]), Tail(e))

NotNone(pair) == pair[2].t # "none"

\* sorted(...): insertion of each pair before the first pair with a larger name
RECURSIVE InsertSorted(_, _)
InsertSorted(pair, sorted) ==
    IF sorted = <<>> THEN <<pair>>
    ELSE IF StrLess(pair[1], Head(sorted)[1]) THEN <<pair>> \o sorted
    ELSE <<Head(sorted)>> \o InsertSorted(pair, Tail(sorted))

RECURSIVE SortPairs(_)
SortPairs(d) == IF d = <<>> THEN <<>> ELSE InsertSorted(Head(d), SortPairs(Tail(d)))

\* hashlib.md5(...).hexdigest().upper().  MD5 itself is replaced by a 16-bit
\* position-weighted checksum of the characters, written as four uppercase hex digits:
\* like the digest it depends on every character and on their order.
HexDigits == <<"0", "1", "2", "3", "4", "5", "6", "7", "8", "9",
               "A", "B", "C", "D", "E", "F">>

\* the sum of the position-weighted character codes of s[lo..hi]
RECURSIVE Checksum(_, _, _)
Checksum(s, lo, hi) ==
    IF lo > hi THEN 0
    ELSE IF lo = hi THEN Ord(s[lo]) * ((lo % 251) + 1)
    ELSE Checksum(s, lo, (lo + hi) \div 2) + Checksum(s, ((lo + hi) \div 2) + 1, hi)

Md5HexUpper(base) ==
    LET h == (Checksum(base, 1, Len(base)) + 7 * Len(base)) % 65521 IN
    <<HexDigits[((h \div 4096) % 16) + 1], HexDigits[((h \div 256) % 16) + 1],
      HexDigits[((h \div 16) % 16) + 1], HexDigits[(h % 16) + 1]>>

\* line 83
OrderedUnsorted(params) == SelectSeq(params, NotNone)
OrderedKeepingNone(params) == SortPairs(params)
Ordered(params) == SortPairs(SelectSeq(params, NotNone))

\* line 84
SignBase(params, secret) ==
    LET ordered == Ordered(params) IN
    secret \o Flatten([i \in 1..Len(ordered) |-> ordered[i][1] \o Format(ordered[i][2])])
           \o secret

sign(params, secret) == Md5HexUpper(SignBase(params, secret))

K_method      == <<"m", "e", "t", "h", "o", "d">>
K_app_key     == <<"a", "p", "p", "_", "k", "e", "y">>
K_sign_method == <<"s", "i", "g", "n", "_", "m", "e", "t", "h", "o", "d">>
K_timestamp   == <<"t", "i", "m", "e", "s", "t", "a", "m", "p">>
K_format      == <<"f", "o", "r", "m", "a", "t">>
K_v           == <<"v">>
K_adzone_id   == <<"a", "d", "z", "o", "n", "e", "_", "i", "d">>
K_sign        == <<"s", "i", "g", "n">>
K_q           == <<"q">>
K_page_no     == <<"p", "a", "g", "e", "_", "n", "o">>
K_page_size   == <<"p", "a", "g", "e", "_", "s", "i", "z", "e">>
K_sort        == <<"s", "o", "r", "t">>
K_has_coupon  == <<"h", "a", "s", "_", "c", "o", "u", "p", "o", "n">>
K_cat         == <<"c", "a", "t">>

V_method      == <<"t", "a", "o", "b", "a", "o", ".", "t", "b", "k", ".", "d", "g", ".", "m", "a", "t", "e", "r", "i", "a", "l", ".", "o", "p", "t", "i", "o", "n", "a", "l">>
V_md5         == <<"m", "d", "5">>
V_json        == <<"j", "s", "o", "n">>
V_2_0         == <<"2", ".", "0">>
V_true        == <<"t", "r", "u", "e">>
V_total_sales == <<"t", "o", "t", "a", "l", "_", "s", "a", "l", "e", "s", "_", "d", "e", "s">>

\* lines 88-96: the fixed parameters, `now` the formatted UTC time
FixedParams(app_key, adzone_id, now) ==
    << <<K_method, PStr(V_method)>>, <<K_app_key, app_key>>,
       <<K_sign_method, PStr(V_md5)>>, <<K_timestamp, PStr(now)>>,
       <<K_format, PStr(V_json)>>, <<K_v, PStr(V_2_0)>>, <<K_adzone_id, adzone_id>> >>

_build_params(client, extra, now) ==
    LET params == DictUpdate(FixedParams(client.app_key, client.adzone_id, now),
                             SelectSeq(extra, NotNone))
    IN  DictSet(params, K_sign, PStr(sign(params, client.app_secret)))

\* lines 170-181: the parameters search hands to _request
SearchParams(client, a, now) ==
    LET base   == << <<K_q, a.keyword>>, <<K_page_no, PInt(a.page_no)>>,
                     <<K_page_size, PInt(a.page_size)>>, <<K_sort, a.sort>> >>
        coupon == IF a.has_coupon THEN DictSet(base, K_has_coupon, PStr(V_true)) ELSE base
        merged == IF a.extra_params # <<>> THEN DictUpdate(coupon, a.extra_params) ELSE coupon
    IN  _build_params(client, merged, now)

-----------------------------------------------------------------------------
(* sign on two insertion orders of one mapping.                            *)

SignKeys    == {<<"a">>, <<"b">>, <<"a", "b">>}
SignValues  == {PNone, PStr(<<"1">>), PInt(12)}
SignSecrets == {<<"s">>, <<"k", "y">>}

DistinctKeys(d) == \A i, j \in 1..Len(d) : d[i][1] = d[j][1] => i = j

Mappings == {d \in SeqsUpTo(SignKeys \X SignValues, Cardinality(SignKeys)) :
                DistinctKeys(d)}

NoSignature == [done |-> FALSE, sig1 |-> <<>>, sig2 |-> <<>>]

SignInit ==
    /\ \E d \in Mappings, secret \in SignSecrets :
          sgIn = [p1 |-> d, p2 |-> d, secret |-> secret]
    /\ sgOut = NoSignature

SignIdle ==
    /\ sgIn = [p1 |-> <<>>, p2 |-> <<>>, secret |-> <<>>]
    /\ sgOut = NoSignature

SwapAt(d, i) == [j \in 1..Len(d) |-> IF j = i THEN d[i + 1]
                                     ELSE IF j = i + 1 THEN d[i] ELSE d[j]]
RemoveAt(d, i) == SubSeq(d, 1, i - 1) \o SubSeq(d, i + 1, Len(d))

\* the caller builds the same mapping in another insertion order
Reinsert ==
    /\ ~sgOut.done
    /\ \E i \in 1..(Len(sgIn.p2) - 1) : sgIn' = [sgIn EXCEPT !.p2 = SwapAt(sgIn.p2, i)]
    /\ UNCHANGED sgOut

\* the caller adds a parameter whose value is None
AddAbsent ==
    /\ ~sgOut.done
    /\ \E k \in SignKeys \ DictKeys(sgIn.p2) :
          sgIn' = [sgIn EXCEPT !.p2 = Append(sgIn.p2, <<k, PNone>>)]
    /\ UNCHANGED sgOut

\* the caller leaves out a parameter whose value is None
DropAbsent ==
    /\ ~sgOut.done
    /\ \E i \in 1..Len(sgIn.p2) :
          /\ sgIn.p2[i][2].t = "none"
          /\ sgIn' = [sgIn EXCEPT !.p2 = RemoveAt(sgIn.p2, i)]
    /\ UNCHANGED sgOut

Sign ==
    /\ ~sgOut.done
    /\ sgOut' = [done |-> TRUE, sig1 |-> sign(sgIn.p1, sgIn.secret),
                 sig2 |-> sign(sgIn.p2, sgIn.secret)]
    /\ UNCHANGED sgIn

-----------------------------------------------------------------------------
(* search up to its call of _request: the signed parameters of one request *)

T_cat == <<"c", "a", "t">>
T_dog == <<"d", "o", "g">>
T_now0 == <<"2", "0", "2", "4", "-", "0", "1", "-", "0", "1", " ", "0", "0", ":", "0", "0", ":", "0", "0">>
T_now1 == <<"2", "0", "2", "4", "-", "0", "1", "-", "0", "1", " ", "0", "0", ":", "0", "0", ":", "0", "1">>
DefaultPageSize == 50

ExtraParams ==
    { <<>>,
      << <<K_cat, PStr(T_15)>> >>,
      << <<K_cat, PNone>> >>,
      << <<K_method, PStr(T_junk)>> >>,
      << <<K_sign, PStr(<<"A", "B">>)>> >>,
      << <<K_sign, PNone>> >>,
      << <<K_q, PStr(T_dog)>>, <<K_page_no, PInt(3)>> >>,
      << <<K_adzone_id, PStr(T_3)>>, <<K_cat, PStr(T_1)>> >> }

Clients == [app_key : {PStr(T_15)}, app_secret : SignSecrets, adzone_id : {PStr(T_7)}]

SearchArgs == [keyword : {PStr(T_cat)}, page_no : {1, 2}, page_size : {DefaultPageSize},
               has_coupon : BOOLEAN, sort : {PStr(V_total_sales), PNone},
               extra_params : ExtraParams]

RequestInit ==
    /\ rqIn \in [client : Clients, args : SearchArgs, now : {T_now0, T_now1}]
    /\ rqOut = <<>>

RequestIdle ==
    /\ rqIn = [client |-> [app_key |-> PNone, app_secret |-> <<>>, adzone_id |-> PNone],
               args |-> [keyword |-> PNone, page_no |-> 1, page_size |-> DefaultPageSize,
                         has_coupon |-> TRUE, sort |-> PNone, extra_params |-> <<>>],
               now |-> T_now0]
    /\ rqOut = <<>>

BuildRequest ==
    /\ rqOut = <<>>
    /\ rqOut' = SearchParams(rqIn.client, rqIn.args, rqIn.now)
    /\ UNCHANGED rqIn

-----------------------------------------------------------------------------
(* Text operations and json.loads, as CopyWriter._parse_response uses them. *)
(* "nl" is the newline character, "\"" the double quote.                    *)

Whitespace == {" ", "nl"}
IsSpace(c) == c \in Whitespace

RECURSIVE LStrip(_, _)
LStrip(s, chars) == IF s # <<>> /\ Head(s) \in chars THEN LStrip(Tail(s), chars) ELSE s

RECURSIVE RStrip(_, _)
RStrip(s, chars) ==
    IF s # <<>> /\ Last(s) \in chars THEN RStrip(SubSeq(s, 1, Len(s) - 1), chars) ELSE s

\* str.strip()
Strip(s) == RStrip(LStrip(s, Whitespace), Whitespace)

\* str.strip("`")
StripBackticks(s) == RStrip(LStrip(s, {"bt"}), {"bt"})

StartsWith(s, prefix) == Len(s) >= Len(prefix) /\ SubSeq(s, 1, Len(prefix)) = prefix

\* str.find / str.rfind of one character, as 1-based positions, 0 for "not found"
Find(s, c)  == IF \E i \in 1..Len(s) : s[i] = c
               THEN CHOOSE i \in 1..Len(s) : s[i] = c /\ \A j \in 1..(i - 1) : s[j] # c
               ELSE 0
RFind(s, c) == IF \E i \in 1..Len(s) : s[i] = c
               THEN CHOOSE i \in 1..Len(s) : s[i] = c /\ \A j \in (i + 1)..Len(s) : s[j] # c
               ELSE 0

\* a decoded JSON value
JNull        == [k |-> "null", s |-> <<>>, items |-> <<>>]
JStr(s)      == [k |-> "str", s |-> s, items |-> <<>>]
JNum(s)      == [k |-> "num", s |-> s, items |-> <<>>]
JList(items) == [k |-> "list", s |-> <<>>, items |-> items]
\* an object: its <<key, value>> members in document order
JObj(items)  == [k |-> "dict", s |-> <<>>, items |-> items]

ParseFail        == [ok |-> FALSE, val |-> JNull, next |-> 0]
ParseOk(v, next) == [ok |-> TRUE, val |-> v, next |-> next]

At(t, i) == IF i >= 1 /\ i <= Len(t) THEN t[i] ELSE "eof"

RECURSIVE SkipWs(_, _)
SkipWs(t, i) == IF IsSpace(At(t, i)) THEN SkipWs(t, i + 1) ELSE i

RECURSIVE ScanDigits(_, _)
ScanDigits(t, i) == IF IsDigit(At(t, i)) THEN ScanDigits(t, i + 1) ELSE i

RECURSIVE ScanString(_, _)
\* the position of the closing quote from i on, 0 when the text ends first
ScanString(t, i) == IF i > Len(t) THEN 0
                    ELSE IF t[i] = "\"" THEN i ELSE ScanString(t, i + 1)

RECURSIVE ParseValue(_, _)
RECURSIVE ParseElems(_, _, _)
RECURSIVE ParseMembers(_, _, _)

\* the elements of an array from position i on, after "[" or ","
ParseElems(t, i, acc) ==
    LET v == ParseValue(t, SkipWs(t, i))
        j == SkipWs(t, v.next)
    IN  IF ~v.ok THEN ParseFail
        ELSE IF At(t, j) = "," THEN ParseElems(t, j + 1, Append(acc, v.val))
        ELSE IF At(t, j) = "]" THEN ParseOk(JList(Append(acc, v.val)), j + 1)
        ELSE ParseFail

\* the members of an object from position i on, after "{" or ","
ParseMembers(t, i, acc) ==
    LET k == ParseValue(t, SkipWs(t, i))
        c == SkipWs(t, k.next)
        v == ParseValue(t, SkipWs(t, c + 1))
        j == SkipWs(t, v.next)
    IN  IF ~k.ok \/ k.val.k # "str" THEN ParseFail
        ELSE IF At(t, c) # ":" THEN ParseFail
        ELSE IF ~v.ok THEN ParseFail
        ELSE IF At(t, j) = "," THEN ParseMembers(t, j + 1, Append(acc, <<k.val.s, v.val>>))
        ELSE IF At(t, j) = "}" THEN ParseOk(JObj(Append(acc, <<k.val.s, v.val>>)), j + 1)
        ELSE ParseFail

ParseValue(t, i) ==
    LET c == At(t, i) IN
    IF c = "\""
    THEN LET e == ScanString(t, i + 1) IN
         IF e = 0 THEN ParseFail ELSE ParseOk(JStr(SubSeq(t, i + 1, e - 1)), e + 1)
    ELSE IF IsDigit(c)
    THEN LET e == ScanDigits(t, i) IN ParseOk(JNum(SubSeq(t, i, e - 1)), e)
    ELSE IF c = "n"
    THEN IF SubSeq(t, i, i + 3) = <<"n", "u", "l", "l">>
         THEN ParseOk(JNull, i + 4) ELSE ParseFail
    ELSE IF c = "["
    THEN IF At(t, SkipWs(t, i + 1)) = "]"
         THEN ParseOk(JList(<<>>), SkipWs(t, i + 1) + 1)
         ELSE ParseElems(t, i + 1, <<>>)
    ELSE IF c = "{"
    THEN IF At(t, SkipWs(t, i + 1)) = "}"
         THEN ParseOk(JObj(<<>>), SkipWs(t, i + 1) + 1)
         ELSE ParseMembers(t, i + 1, <<>>)
    ELSE ParseFail

\* json.loads(text): ok is FALSE for json.JSONDecodeError
json_loads(t) ==
    LET v == ParseValue(t, SkipWs(t, 1)) IN
    IF v.ok /\ SkipWs(t, v.next) = Len(t) + 1 THEN v ELSE ParseFail

\* data.get(key) of a decoded object: the last member of that name, else None
JGet(obj, key) ==
    LET hits == {i \in 1..Len(obj.items) : obj.items[i][1] = key} IN
    IF hits = {} THEN JNull
    ELSE obj.items[CHOOSE i \in hits : \A j \in hits : j <= i][2]

\* str(item) of an array element
PyStr(v) ==
    IF v.k \in {"str", "num"} THEN v.s
    ELSE IF v.k = "null" THEN <<"N", "o", "n", "e">>
    ELSE IF v.k = "list" THEN <<"[", "]">>
    ELSE <<"{", "}">>

-----------------------------------------------------------------------------
(* CopyWriter._parse_response and CopyWriter.generate.                      *)

Fence == <<"bt", "bt", "bt">>

\* lines 44-48: the text handed to json.loads
Unfence(payload) ==
    LET text == Strip(payload)
        bare == StripBackticks(text)
    IN  IF StartsWith(text, Fence)
        THEN (IF Find(bare, "{") > 0
              THEN SubSeq(bare, Find(bare, "{"), RFind(bare, "}"))
              ELSE bare)
        ELSE text

RECURSIVE KeepNonEmpty(_)
KeepNonEmpty(ts) ==
    IF ts = <<>> THEN <<>>
    ELSE (IF Head(ts) # <<>> THEN <<Head(ts)>> ELSE <<>>) \o KeepNonEmpty(Tail(ts))

\* lines 58-64: the texts of one platform's value
TextsOfReversed(value) ==
    IF value.k = "list"
    THEN KeepNonEmpty([i \in 1..Len(value.items) |->
                          Strip(PyStr(value.items[Len(value.items) + 1 - i]))])
    ELSE IF value.k = "str" THEN <<Strip(value.s)>>
    ELSE <<>>

TextsOf(value) ==
    IF value.k = "list"
    THEN KeepNonEmpty([i \in 1..Len(value.items) |-> Strip(PyStr(value.items[i]))])
    ELSE IF value.k = "str" THEN <<Strip(value.s)>>
    ELSE <<>>

\* lines 65-66, for variants >= 0
CapNone(texts, variants) == texts
Cap(texts, variants) ==
    IF Len(texts) > variants THEN SubSeq(texts, 1, variants) ELSE texts

ResponseDict(d)   == [kind |-> "dict", exc |-> "", results |-> d]
ResponseRaised(x) == [kind |-> "raise", exc |-> x, results |-> <<>>]

\* lines 55-68 on a decoded object
RECURSIVE PlatformResults(_, _, _, _)
PlatformResults(data, platforms, variants, results) ==
    IF platforms = <<>> THEN results
    ELSE PlatformResults(data, Tail(platforms), variants,
                         DictSet(results, Head(platforms),
                                 Cap(TextsOf(JGet(data, Head(platforms))), variants)))

_parse_response(payload, platforms, variants) ==
    LET data == json_loads(Unfence(payload)) IN
    IF ~data.ok
    THEN (IF platforms = <<>> THEN ResponseRaised("IndexError")
          ELSE ResponseDict(<< <<platforms[1], <<Strip(payload)>> >> >>))
    ELSE IF platforms # <<>> /\ data.val.k # "dict" THEN ResponseRaised("AttributeError")
    ELSE ResponseDict(PlatformResults(data.val, platforms, variants, <<>>))

Creative(platform, variant, content) ==
    [platform |-> platform, variant |-> variant, content |-> content]

\* lines 104-120: enumerate(texts, start=1)
CreativesOfStartingAtZero(platform, texts) ==
    [i \in 1..Len(texts) |-> Creative(platform, i - 1, texts[i])]
CreativesOf(platform, texts) ==
    [i \in 1..Len(texts) |-> Creative(platform, i, texts[i])]

GenPending     == [kind |-> "pending", exc |-> "", creatives |-> <<>>]
GenReturned(c) == [kind |-> "return", exc |-> "", creatives |-> c]
GenRaised(x)   == [kind |-> "raise", exc |-> x, creatives |-> <<>>]

\* message.content or ""
ContentOf(c) == IF c.t = "none" THEN <<>> ELSE c.s

generate(content, platforms, variants) ==
    LET response == _parse_response(ContentOf(content), platforms, variants) IN
    IF response.kind = "raise" THEN GenRaised(response.exc)
    ELSE GenReturned(Flatten(
            [i \in 1..Len(platforms) |->
                IF DictHas(response.results, platforms[i])
                THEN CreativesOf(platforms[i], DictGet(response.results, platforms[i]))
                ELSE <<>>]))

-----------------------------------------------------------------------------
(* The replies of the chat model: a value written as JSON text the way     *)
(* json.dumps writes it, bare or inside a code fence, or plain prose.      *)

MaxTexts    == 2     \* longest array of texts under one platform
MaxVariants == 2     \* largest `variants` argument

RECURSIVE Join(_, _)
Join(parts, sep) ==
    IF parts = <<>> THEN <<>>
    ELSE IF Len(parts) = 1 THEN Head(parts)
    ELSE Head(parts) \o sep \o Join(Tail(parts), sep)

Quoted(s) == <<"\"">> \o s \o <<"\"">>

RECURSIVE Dumps(_)
Dumps(v) ==
    IF v.k = "str" THEN Quoted(v.s)
    ELSE IF v.k = "num" THEN v.s
    ELSE IF v.k = "null" THEN <<"n", "u", "l", "l">>
    ELSE IF v.k = "list"
    THEN <<"[">> \o Join([i \in 1..Len(v.items) |-> Dumps(v.items[i])], <<",", " ">>)
                 \o <<"]">>
    ELSE <<"{">> \o Join([i \in 1..Len(v.items) |->
                             Quoted(v.items[i][1]) \o <<":", " ">> \o Dumps(v.items[i][2])],
                         <<",", " ">>)
                 \o <<"}">>

Fenced(body) == Fence \o <<"j", "s", "o", "n", "nl">> \o body \o <<"nl">> \o Fence
Padded(body) == <<"nl">> \o body \o <<" ">>

P_weibo       == <<"w", "b">>
P_xiaohongshu == <<"x", "h", "s">>

\* a key the reply leaves out
JMissing == [k |-> "missing", s |-> <<>>, items |-> <<>>]

ElementTexts == {JStr(<<"a">>), JStr(<<" ", "b">>), JStr(<<" ">>)}

WeiboValues ==
    {JMissing, JNull, JNum(T_7), JStr(<<"a">>), JStr(<<" ", "b", " ">>), JStr(<<>>),
     JList(<<JNum(T_1)>>), JList(<<JNull, JStr(<<"a">>)>>)}
    \cup {JList(l) : l \in SeqsUpTo(ElementTexts, MaxTexts)}

XiaohongshuValues ==
    {JMissing, JStr(<<"c">>), JList(<<JStr(<<"c">>), JStr(<<"d">>), JStr(<<"e">>)>>)}

Member(key, v) == IF v.k = "missing" THEN <<>> ELSE << <<key, v>> >>

ReplyObjects ==
    {JObj(Member(P_weibo, w) \o Member(P_xiaohongshu, x)) :
        w \in WeiboValues, x \in XiaohongshuValues}
    \cup {JObj(<< <<P_xiaohongshu, JStr(<<"c">>)>>, <<P_weibo, JList(<<JStr(<<"a">>)>>)>>,
               <<P_weibo, JList(<<JStr(<<"b">>), JStr(<<"a">>)>>)>> >>)}

\* decoded values that are no object
ReplyOthers == {JList(<<JStr(<<"a">>)>>), JNum(T_7), JStr(<<"a">>), JNull}

\* what the reply was written from, when it is no JSON at all
NotJson == [k |-> "text", s |-> <<>>, items |-> <<>>]

ProseReplies ==
    { <<>>, <<" ", "nl">>, <<"h", "i", " ", "x">>, <<" ", "h", "i", "nl">>,
      Fence \o <<"nl", "h", "i", "nl">> \o Fence,
      <<"{">> \o Quoted(P_weibo) \o <<":", " ", "[">>,
      Fence \o <<"{", "h", "i">> \o Fence }

Replies ==
    {[meant |-> v, content |-> PStr(Dumps(v))] : v \in ReplyObjects \cup ReplyOthers}
    \cup {[meant |-> v, content |-> PStr(Fenced(Dumps(v)))] : v \in ReplyObjects}
    \cup {[meant |-> v, content |-> PStr(Padded(Dumps(v)))] : v \in ReplyOthers}
    \cup {[meant |-> NotJson, content |-> PStr(t)] : t \in ProseReplies}
    \cup {[meant |-> NotJson, content |-> PNone]}

PlatformLists == { <<P_weibo, P_xiaohongshu>>, <<P_xiaohongshu, P_weibo>>,
                   <<P_weibo>>, <<P_weibo, P_weibo>>, <<>> }

GenInit ==
    /\ \E r \in Replies, ps \in PlatformLists, n \in 0..MaxVariants :
          gIn = [meant |-> r.meant, content |-> r.content, platforms |-> ps,
                 variants |-> n]
    /\ gOut = GenPending

GenIdle ==
    /\ gIn = [meant |-> NotJson, content |-> PNone, platforms |-> <<>>, variants |-> 0]
    /\ gOut = GenPending

\* lines 95-123 of generate, on the reply the model gave
Generate ==
    /\ gOut = GenPending
    /\ gOut' = generate(gIn.content, gIn.platforms, gIn.variants)
    /\ UNCHANGED gIn

-----------------------------------------------------------------------------
(* Storage: store_items and store_creatives on the two tables.  A table is *)
(* the set of its rows; the primary key is enforced by the insert.         *)

MaxBatch == 2     \* longest batch handed to store_items
MaxRows  == 2     \* creative ids the uuid supply hands out

Keywords == {"k1", "k2"}

\* an entry whose price is a signaling NaN: _parse_item builds the Item,
\* float() of the price raises
EntrySNaN == [EmptyEntry EXCEPT !["item_id"] = Text(T_2), !["zk_final_price"] = Text(T_sNaN)]

\* the Items fetch_many can hand to store_items
StorableItems ==
    {_parse_item(EntryA, k).item : k \in Keywords}
    \cup {_parse_item(e, Keyword).item : e \in {EntryB, EntrySNaN}}

Batches == SeqsUpTo(StorableItems, MaxBatch)

\* float(d) if d is not None else None: "raise" for a signaling NaN
FloatOf(d) == IF d.k = "snan" THEN RaisedDec ELSE d

\* ",".join(self.tags)
RECURSIVE JoinTags(_)
JoinTags(tags) ==
    IF tags = <<>> THEN ""
    ELSE IF Len(tags) = 1 THEN Head(tags)
    ELSE Head(tags) \o "," \o JoinTags(Tail(tags))

RecordOk(row)   == [kind |-> "row", row |-> row]
RecordRaised    == [kind |-> "raise", row |-> <<>>]

\* Item.to_record
ItemRecord(item) ==
    IF \E d \in {item.price, item.coupon_price, item.commission_rate, item.shop_score} :
          FloatOf(d).k = "raise"
    THEN RecordRaised
    ELSE RecordOk([item_id         |-> item.item_id,
                   category        |-> item.category,
                   coupon_price    |-> FloatOf(item.coupon_price),
                   price           |-> FloatOf(item.price),
                   commission_rate |-> FloatOf(item.commission_rate),
                   monthly_sales   |-> item.monthly_sales,
                   shop_score      |-> FloatOf(item.shop_score),
                   tags            |-> JoinTags(item.tags)])

ItemKeys(rows)     == {r.item_id : r \in rows}
CreativeKeys(rows) == {r.creative_id : r \in rows}

\* taoke_items.delete().where(taoke_items.c.item_id.in_(ids))
DeleteEverything(table, ids) == {}
DeleteIds(table, ids) == {r \in table : r.item_id \notin ids}

\* the first row of a bulk insert that breaks the primary key (0: none does):
\* its key is in the table or was inserted by an earlier row of the batch
FirstConflict(tableKeys, rowKeys) ==
    LET Breaks(i) == \/ rowKeys[i] \in tableKeys
                     \/ \E j \in 1..(i - 1) : rowKeys[j] = rowKeys[i]
    IN  IF \E i \in 1..Len(rowKeys) : Breaks(i)
        THEN CHOOSE i \in 1..Len(rowKeys) : Breaks(i) /\ \A j \in 1..(i - 1) : ~Breaks(j)
        ELSE 0

Inserted(ok, table) == [ok |-> ok, table |-> table]

\* conn.execute(table.insert(), rows): rows go in one by one until one breaks
\* the primary key
BulkInsert(table, rows, at) ==
    IF at = 0 THEN Inserted(TRUE, table \cup {rows[i] : i \in 1..Len(rows)})
    ELSE Inserted(FALSE, table \cup {rows[i] : i \in 1..(at - 1)})

StoreReturned(n, table)   == [kind |-> "return", exc |-> "", n |-> n, table |-> table]
StoreRaised(exc, table)   == [kind |-> "raise", exc |-> exc, n |-> 0, table |-> table]

\* `with engine.begin() as conn` left by an exception: the table is again what
\* it was when the block was entered
RollbackNot(before, now) == now
Rollback(before, now) == before

\* lines 85-91 of store_items, after the delete
InsertItems(before, afterDelete, records) ==
    IF \E i \in 1..Len(records) : records[i].kind = "raise"
    THEN StoreRaised("ValueError", Rollback(before, afterDelete))
    ELSE LET rows == [i \in 1..Len(records) |-> records[i].row]
             ins  == BulkInsert(afterDelete, rows,
                                FirstConflict(ItemKeys(afterDelete),
                                              [i \in 1..Len(rows) |-> rows[i].item_id]))
         IN  IF ins.ok THEN StoreReturned(Len(records), ins.table)
             ELSE StoreRaised("IntegrityError", Rollback(before, ins.table))

store_items(table, items) ==
    IF items = <<>> THEN StoreReturned(0, table)
    ELSE InsertItems(table,
                     DeleteIds(table, {items[i].item_id : i \in 1..Len(items)}),
                     [i \in 1..Len(items) |-> ItemRecord(items[i])])

\* a Creative object: the fields of the row it becomes (Creative.to_record)
CreativeRow(id, item_id, c) ==
    [creative_id |-> id, item_id |-> item_id, platform |-> c.platform,
     variant |-> c.variant, content |-> c.content]

\* the Creative objects generate builds for one item: each with a fresh uuid
FreshRows(cs, item_id, next) ==
    [i \in 1..Len(cs) |-> CreativeRow(next + i - 1, item_id, cs[i])]

\* a store_creatives that first removes the stored rows of the same item,
\* platform and variant
store_creatives_replacing(table, rows) ==
    [kind |-> "return", exc |-> "", n |-> Len(rows),
     table |-> {r \in table : \A i \in 1..Len(rows) :
                    <<r.item_id, r.platform, r.variant>>
                        # <<rows[i].item_id, rows[i].platform, rows[i].variant>>}
               \cup {rows[i] : i \in 1..Len(rows)}]

\* lines 146-153 of store_creatives
InsertCreatives(before, ins, n) ==
    IF ins.ok THEN StoreReturned(n, ins.table)
    ELSE StoreRaised("IntegrityError", Rollback(before, ins.table))

store_creatives(table, rows) ==
    IF rows = <<>> THEN StoreReturned(0, table)
    ELSE InsertCreatives(table,
                         BulkInsert(table, rows,
                                    FirstConflict(CreativeKeys(table),
                                                  [i \in 1..Len(rows) |-> rows[i].creative_id])),
                         Len(rows))

-----------------------------------------------------------------------------
(* pipeline.fetch_and_store and pipeline.generate_and_store_creatives.     *)

\* what fetch_many gives for one keyword: a list of Items, or the error of
\* the upstream
FetchOutcomes ==
    [keyword \in Keywords |->
        {Returned(CollectItems(ParseAll(es, keyword)).items) :
            es \in {<<>>, <<EntryA>>, <<EntryA, EntryB>>, <<EntryA, EntryA>>}}
        \cup {Threw([type |-> "TaobaoAPIError", code |-> "15",
                     message |-> "Remote service error"])}]

PipelineDone(kind, exc, n, table) == [kind |-> kind, exc |-> exc, n |-> n, table |-> table]

\* lines 36-38 of fetch_and_store for one keyword, `rest` being the loop on
\* the keywords after it
AfterStore(stored, rest) ==
    IF stored.kind = "raise" THEN PipelineDone("raise", stored.exc, 0, stored.table)
    ELSE rest

\* lines 29-39 of fetch_and_store: outcomes[i] is what fetch_many gives for
\* keywords[i]
RECURSIVE FetchAndStoreLoop(_, _, _)
FetchAndStoreLoop(outcomes, table, total) ==
    IF outcomes = <<>> THEN PipelineDone("return", "", total, table)
    ELSE IF Head(outcomes).kind = "raise"
    THEN PipelineDone("raise", Head(outcomes).exc.type, 0, table)
    ELSE IF Head(outcomes).items = <<>>
    THEN FetchAndStoreLoop(Tail(outcomes), table, total)
    ELSE AfterStore(store_items(table, Head(outcomes).items),
                    FetchAndStoreLoop(Tail(outcomes),
                                      store_items(table, Head(outcomes).items).table,
                                      total + Len(Head(outcomes).items)))

\* fetch_items(engine, item_ids=...): the rows asked for, all rows when no id
\* is given
fetch_items(table, item_ids) ==
    IF item_ids = {} THEN table ELSE {r \in table : r.item_id \in item_ids}

GenDone(kind, exc, table, next) == [kind |-> kind, exc |-> exc, table |-> table, next |-> next]

\* lines 60-64 of generate_and_store_creatives: outs[i] is what generate
\* gives for items[i]; `generated` is outs[1]
RECURSIVE GenerateLoop(_, _, _, _), AfterGenerate(_, _, _, _, _)
AfterGenerate(generated, items, outs, table, next) ==
    IF generated.kind = "raise" THEN GenDone("raise", generated.exc, table, next)
    ELSE GenerateLoop(Tail(items), Tail(outs),
                      store_creatives(table, FreshRows(generated.creatives,
                                                       Head(items).item_id, next)).table,
                      next + Len(generated.creatives))

GenerateLoop(items, outs, table, next) ==
    IF items = <<>> THEN GenDone("return", "", table, next)
    ELSE AfterGenerate(Head(outs), items, outs, table, next)

-----------------------------------------------------------------------------
(* The storage calls as steps.                                             *)

\* a call, how it ended, and the number of rows its DELETE statement matched
NoCall == [op |-> "", kind |-> "", exc |-> "", deleted |-> 0]
Call(op, out, deleted) == [op |-> op, kind |-> out.kind, exc |-> out.exc, deleted |-> deleted]

StoreInit ==
    /\ dbItems = {}
    /\ dbCreatives = {}
    /\ dbNextId = 1
    /\ dbCall = NoCall

StoreIdle == StoreInit

\* store_items(engine, batch) called with the outcome `out`
StoreItemsStep(out, deleted) ==
    /\ dbItems' = out.table
    /\ dbCall' = Call("store_items", out, deleted)
    /\ UNCHANGED <<dbCreatives, dbNextId>>

BatchIds(batch) == {batch[i].item_id : i \in 1..Len(batch)}

StoreItemsCall(batch) ==
    StoreItemsStep(store_items(dbItems, batch),
                   Cardinality(dbItems \ DeleteIds(dbItems, BatchIds(batch))))

StoreItems == \E batch \in Batches : StoreItemsCall(batch)

\* the texts a caller of store_creatives brings
CreativePool == {Creative(P_weibo, 1, <<"a">>)}

\* the lists store_creatives is called with: `fresh` new Creative objects of
\* one item, then possibly an object that is stored already
CreativeLists(fresh) ==
    {FreshRows(cs, i, dbNextId) \o old :
        cs \in {cs \in SeqsUpTo(CreativePool, 2) : Len(cs) = fresh},
        i \in {1},
        old \in {<<>>} \cup {<<r>> : r \in dbCreatives}}

StoreCreativesStep(fresh, out) ==
    /\ dbCreatives' = out.table
    /\ dbNextId' = dbNextId + fresh
    /\ dbCall' = Call("store_creatives", out, 0)
    /\ UNCHANGED dbItems

StoreCreativesCall(fresh, rows) ==
    StoreCreativesStep(fresh, store_creatives(dbCreatives, rows))

StoreCreatives ==
    \E fresh \in 0..2 :
        /\ dbNextId + fresh - 1 <= MaxRows
        /\ \E rows \in CreativeLists(fresh) : StoreCreativesCall(fresh, rows)

KeywordLists == {<<"k1">>, <<"k2">>, <<"k2", "k1">>}

FetchAndStoreStep(out) ==
    /\ dbItems' = out.table
    /\ dbCall' = Call("fetch_and_store", out, 0)
    /\ UNCHANGED <<dbCreatives, dbNextId>>

FetchAndStore ==
    \E keywords \in KeywordLists :
        \E outcomes \in {o \in [1..Len(keywords) -> UNION {FetchOutcomes[k] : k \in Keywords}] :
                            \A i \in 1..Len(keywords) : o[i] \in FetchOutcomes[keywords[i]]} :
            FetchAndStoreStep(FetchAndStoreLoop(outcomes, dbItems, 0))

\* the replies of the chat model in the pipeline: an object, a JSON list
PipelineReplies ==
    {PStr(Dumps(JObj(<< <<P_weibo, JList(<<JStr(<<"a">>), JStr(<<"b">>)>>)>> >>))),
     PStr(Dumps(JList(<<JStr(<<"a">>)>>)))}

\* generate on each of these replies
Generated ==
    [r \in PipelineReplies, n \in 1..2 |-> generate(r, <<P_weibo>>, n)]

\* the orders in which a set of rows can be read back
Orders(rows) ==
    {o \in [1..Cardinality(rows) -> rows] : \A i, j \in 1..Cardinality(rows) : i # j => o[i] # o[j]}

GenerateAndStoreStep(out) ==
    /\ out.next - 1 <= MaxRows
    /\ dbCreatives' = out.table
    /\ dbNextId' = out.next
    /\ dbCall' = Call("generate_and_store_creatives", out, 0)
    /\ UNCHANGED dbItems

GenerateAndStore ==
    \E item_ids \in {{}, {1}}, variants \in 1..2 :
        \E items \in Orders(fetch_items(dbItems, item_ids)) :
            \E replies \in [1..Len(items) -> PipelineReplies] :
                GenerateAndStoreStep(
                    GenerateLoop(items, [i \in 1..Len(items) |-> Generated[replies[i], variants]],
                                 dbCreatives, dbNextId))

-----------------------------------------------------------------------------
(* config.load_settings, as far as Settings.llm goes.  A configuration     *)
(* value is None, the empty text or a text; the environment is the mapping *)
(* of lower-cased variable names, the overrides the keyword arguments.     *)

Falsy(v) == v \in {NoneStr, ""}

\* Python's `a or b`
OrFirst(a, b) == a
Or(a, b) == IF Falsy(a) THEN b ELSE a

\* str.lower, on the provider names that occur
lower(s) == IF s = "DeepSeek" THEN "deepseek" ELSE IF s = "OpenAI" THEN "openai" ELSE s

\* float(), on the temperatures that occur
IsFloat(v) == v \in {"0.2", "0.7"}

DefaultProvider      == "openai"
DefaultOpenAIModel   == "gpt-4o-mini"
DefaultDeepseekModel == "deepseek-chat"
DefaultDeepseekURL   == "https://api.deepseek.com"
DefaultTemperature   == "0.7"

Environments ==
    [tb_app_key : {"key"},
     openai_temperature : {NoneStr, "0.2"},
     deepseek_temperature : {NoneStr},
     hotflow_copy_provider : {NoneStr, "", "deepseek", "DeepSeek"},
     openai_api_key : {NoneStr, "test-key"},
     deepseek_api_key : {NoneStr, "", "ds-key"},
     openai_model : {NoneStr, "gpt-4"},
     deepseek_model : {NoneStr, "deepseek-coder"},
     openai_base_url : {NoneStr, "", "http://proxy"},
     deepseek_base_url : {NoneStr, "http://ds"}]

BadEnvironments ==
    [tb_app_key : {NoneStr, "key"},
     openai_temperature : {NoneStr, "abc"},
     deepseek_temperature : {NoneStr},
     hotflow_copy_provider : {NoneStr, "deepseek"},
     openai_api_key : {"test-key"},
     deepseek_api_key : {"ds-key"},
     openai_model : {NoneStr},
     deepseek_model : {NoneStr},
     openai_base_url : {NoneStr},
     deepseek_base_url : {NoneStr}]

Overrides ==
    [copy_provider : {NoneStr, "deepseek", "OpenAI"},
     openai_api_key : {NoneStr},
     deepseek_api_key : {NoneStr, "ov-key"},
     openai_model : {NoneStr, "gpt-4"},
     deepseek_model : {NoneStr, "deepseek-coder"},
     openai_temperature : {NoneStr, "abc"},
     deepseek_temperature : {NoneStr},
     openai_base_url : {NoneStr},
     deepseek_base_url : {NoneStr, "http://ds"}]

NoLLM == [api_key |-> NoneStr, model |-> NoneStr, temperature |-> NoneStr,
          base_url |-> NoneStr, provider |-> NoneStr]
LLMSettings(api_key, model, temperature, base_url, provider) ==
    [api_key |-> api_key, model |-> model, temperature |-> temperature,
     base_url |-> base_url, provider |-> provider]

CfgIdle          == [kind |-> "idle", exc |-> "", llm |-> NoLLM]
CfgReturned(llm) == [kind |-> "return", exc |-> "", llm |-> llm]
CfgRaised(exc)   == [kind |-> "raise", exc |-> exc, llm |-> NoLLM]

\* _SettingsModel(**env): the required variables and the float fields
Validates(env) ==
    /\ env.tb_app_key # NoneStr
    /\ \A t \in {env.openai_temperature, env.deepseek_temperature} : Falsy(t) \/ IsFloat(t)

\* LLMSettings(...), its temperature argument being float(t)
BuiltLLM(api_key, model, t, base_url, provider) ==
    IF IsFloat(t) THEN CfgReturned(LLMSettings(api_key, model, t, base_url, provider))
    ELSE CfgRaised("ValueError")

DeepseekSettings(ov, env) ==
    IF Falsy(Or(ov.deepseek_api_key, env.deepseek_api_key)) THEN CfgReturned(NoLLM)
    ELSE BuiltLLM(Or(ov.deepseek_api_key, env.deepseek_api_key),
               Or(Or(Or(Or(ov.openai_model, ov.deepseek_model), env.openai_model),
                     env.deepseek_model), DefaultDeepseekModel),
               Or(Or(Or(Or(ov.openai_temperature, ov.deepseek_temperature),
                        env.openai_temperature), env.deepseek_temperature),
                  DefaultTemperature),
               Or(Or(Or(Or(ov.openai_base_url, ov.deepseek_base_url), env.openai_base_url),
                     env.deepseek_base_url), DefaultDeepseekURL),
               "deepseek")

OpenAISettings(ov, env) ==
    IF Falsy(Or(ov.openai_api_key, env.openai_api_key)) THEN CfgReturned(NoLLM)
    ELSE BuiltLLM(Or(ov.openai_api_key, env.openai_api_key),
               Or(Or(ov.openai_model, env.openai_model), DefaultOpenAIModel),
               Or(Or(ov.openai_temperature, env.openai_temperature), DefaultTemperature),
               Or(ov.openai_base_url, env.openai_base_url),
               "openai")

Provider(ov, env) == lower(Or(Or(ov.copy_provider, env.hotflow_copy_provider), DefaultProvider))

load_settings(ov, env) ==
    IF ~Validates(env) THEN CfgRaised("RuntimeError")
    ELSE IF Provider(ov, env) = "deepseek" THEN DeepseekSettings(ov, env)
    ELSE OpenAISettings(ov, env)

ConfigInit ==
    /\ cfgIn = [ov |-> CHOOSE o \in Overrides : \A f \in DOMAIN o : o[f] = NoneStr,
                env |-> CHOOSE e \in Environments :
                            \A f \in DOMAIN e : f # "tb_app_key" => e[f] = NoneStr]
    /\ cfgOut = CfgIdle

ConfigIdle == ConfigInit

\* one process: its environment, then one call of load_settings(**overrides)
LoadSettings ==
    /\ cfgOut.kind = "idle"
    /\ \E ov \in Overrides, env \in Environments \cup BadEnvironments :
          /\ cfgIn' = [ov |-> ov, env |-> env]
          /\ cfgOut' = load_settings(ov, env)

-----------------------------------------------------------------------------
(* Two callers inside store_items at once, each in its own transaction     *)
(* (db.py:82-90): the DELETE, the INSERT, then the COMMIT on leaving the   *)
(* `with` block, or the ROLLBACK when a statement raises.  How the two are *)
(* kept apart is the database's, and create_engine takes any URL: "serial" *)
(* admits one writer at a time (SQLite's database lock, held from the      *)
(* first statement to the commit), "mvcc" versions rows, locks the rows a  *)
(* transaction deleted and checks the primary key on insert (PostgreSQL's  *)
(* READ COMMITTED).                                                         *)

Callers  == {1, 2}
Other(c) == 3 - c
Engines  == {"serial", "mvcc"}

\* the callers' batches: both hold item 1, fetched under different keywords
RaceBatches ==
    [c \in Callers |->
        LET mine == _parse_item(EntryA, IF c = 1 THEN "k1" ELSE "k2").item
            both == _parse_item(EntryB, Keyword).item
        IN  {<<mine>>, <<mine, both>>, <<both, mine>>}]

\* the table before the two calls
RaceTables ==
    {{}, {ItemRecord(_parse_item(EntryA, Keyword).item).row},
     {ItemRecord(_parse_item(EntryA, Keyword).item).row,
      ItemRecord(_parse_item(EntryB, Keyword).item).row}}

Tx(pc, batch, snap, deleted, inserted, exc) ==
    [pc |-> pc, batch |-> batch, snap |-> snap, deleted |-> deleted,
     inserted |-> inserted, exc |-> exc]

RecordsOf(batch) == {ItemRecord(batch[i]).row : i \in 1..Len(batch)}

\* the rows of `rows` that `DELETE ... WHERE item_id IN ids` matches
Matching(rows, batch) == {r \in rows : \E i \in 1..Len(batch) : r.item_id = batch[i].item_id}

\* c has written and not yet committed
Writing(c) == rcTx[c].pc \in {"deleted", "inserted"}
Ended(c)   == rcTx[c].pc \in {"committed", "raised"}

RaceInit ==
    /\ rcEngine \in Engines
    /\ rcItems \in RaceTables
    /\ rcTx \in [Callers -> UNION {{Tx("called", b, {}, {}, {}, "") : b \in RaceBatches[c]}
                                     : c \in Callers}]
    /\ \A c \in Callers : rcTx[c].batch \in RaceBatches[c]
    /\ rcCommits = <<>>

RaceIdle ==
    /\ rcEngine = ""
    /\ rcItems = {}
    /\ rcTx = <<>>
    /\ rcCommits = <<>>

\* db.py:84, the DELETE statement starts.  A serial engine makes it wait
\* for the other writer's commit; under mvcc it sees the committed rows and
\* waits when one of them is locked by the other transaction.
Delete(c) ==
    /\ rcTx[c].pc = "called"
    /\ rcEngine = "serial" => ~Writing(Other(c))
    /\ LET seen == Matching(rcItems, rcTx[c].batch)
       IN  rcTx' = [rcTx EXCEPT ![c] =
                IF Writing(Other(c)) /\ seen \cap rcTx[Other(c)].deleted # {}
                THEN Tx("waiting", @.batch, seen, {}, {}, "")
                ELSE Tx("deleted", @.batch, seen, seen, {}, "")]
    /\ UNCHANGED <<rcEngine, rcItems, rcCommits>>

\* the waiting DELETE goes on when the other transaction has ended: of the
\* rows it saw when it started it deletes those that still exist
DeleteResume(c) ==
    /\ rcTx[c].pc = "waiting"
    /\ Ended(Other(c))
    /\ rcTx' = [rcTx EXCEPT ![c] =
                    Tx("deleted", @.batch, @.snap, @.snap \cap rcItems, {}, "")]
    /\ UNCHANGED <<rcEngine, rcItems, rcCommits>>

\* db.py:90, the INSERT statement.  A key that a committed row holds, and
\* that this transaction has not deleted, is a primary key violation: the
\* statement raises IntegrityError and the block rolls back.  A key that
\* the other transaction has inserted and not committed makes it wait.
Insert(c) ==
    /\ rcTx[c].pc = "deleted"
    /\ Writing(Other(c)) => Matching(rcTx[Other(c)].inserted, rcTx[c].batch) = {}
    /\ rcTx' = [rcTx EXCEPT ![c] =
                    IF Matching(rcItems \ @.deleted, @.batch) # {}
                    THEN Tx("raised", @.batch, {}, {}, {}, "IntegrityError")
                    ELSE Tx("inserted", @.batch, @.snap, @.deleted, RecordsOf(@.batch), "")]
    /\ UNCHANGED <<rcEngine, rcItems, rcCommits>>

\* leaving the `with engine.begin()` block: COMMIT, store_items returns
Commit(c) ==
    /\ rcTx[c].pc = "inserted"
    /\ rcItems' = (rcItems \ rcTx[c].deleted) \cup rcTx[c].inserted
    /\ rcTx' = [rcTx EXCEPT ![c] = Tx("committed", @.batch, {}, {}, {}, "")]
    /\ rcCommits' = Append(rcCommits, c)
    /\ UNCHANGED rcEngine

-----------------------------------------------------------------------------
(* pipeline.fetch_and_store step by step: every page request of every      *)
(* keyword's fetch_many and every store_items is a step of its own, and    *)
(* the log keeps their order.  The sleeps between pages are fetch_many's   *)
(* and change nothing here.                                                *)

MaxKeywordPages == 2     \* largest `pages` argument of fetch_and_store

FsKeywordLists == {<<"k1">>, <<"k2", "k1">>, <<"k1", "k2", "k1">>}

\* what the upstream answers to one page request
FsResponses ==
    {[kind |-> "json", err |-> Envelope("15", "Remote service error", NoneStr),
      entries |-> <<>>]}
    \cup {[kind |-> "json", err |-> NoEnvelope, entries |-> es] :
             es \in {<<>>, <<EntryA>>, <<EntryB>>, <<EntryA, EntryB>>}}

\* the table before the call
FsTables == {{}, {ItemRecord(_parse_item(EntryB, Keyword).item).row}}

FsRequested(kw, p, got) == [ev |-> "request", kw |-> kw, page |-> p, got |-> got, ids |-> {}]
FsStored(kw, n, ids)    == [ev |-> "store", kw |-> kw, page |-> 0, got |-> n, ids |-> ids]

\* pipeline.py:33, `if not items`
NoItemsAlways(items) == TRUE
NoItems(items) == items = <<>>

FsInit ==
    /\ fsArgs \in [keywords : FsKeywordLists, pages : 1..MaxKeywordPages,
                   page_size : 1..MaxPageSize, table : FsTables]
    /\ fsPc = "fetch"
    /\ fsKw = 1
    /\ fsPage = 1
    /\ fsCollected = <<>>
    /\ fsTable = fsArgs.table
    /\ fsTotal = 0
    /\ fsExc = NoExc
    /\ fsLog = <<>>

FsIdle ==
    /\ fsArgs = [keywords |-> <<>>, pages |-> 1, page_size |-> 1, table |-> {}]
    /\ fsPc = "returned"
    /\ fsKw = 1
    /\ fsPage = 1
    /\ fsCollected = <<>>
    /\ fsTable = {}
    /\ fsTotal = 0
    /\ fsExc = NoExc
    /\ fsLog = <<>>

\* the loop goes on to the next keyword
FsNextKeyword ==
    /\ fsPc' = "fetch"
    /\ fsKw' = fsKw + 1
    /\ fsPage' = 1
    /\ fsCollected' = <<>>

\* fetch_many has returned `items` (taobao.py:209); pipeline.py:33-35
FsFetched(items) ==
    IF NoItems(items) THEN FsNextKeyword
    ELSE /\ fsPc' = "store"
         /\ fsCollected' = items
         /\ UNCHANGED <<fsKw, fsPage>>

\* taobao.py:201-208 on the result of one page of the keyword at hand
FsPageStep(result) ==
    /\ fsLog' = Append(fsLog, FsRequested(fsKw, fsPage,
                                          IF result.kind = "raise" THEN -1
                                          ELSE Len(result.items)))
    /\ IF result.kind = "raise"
       THEN /\ fsPc' = "raised"
            /\ fsExc' = result.exc
            /\ UNCHANGED <<fsKw, fsPage, fsCollected>>
       ELSE /\ fsExc' = fsExc
            /\ IF result.items = <<>> THEN FsFetched(fsCollected)
               ELSE IF ShortPage(result.items, fsArgs.page_size) \/ fsPage = fsArgs.pages
               THEN FsFetched(Extend(fsCollected, result.items))
               ELSE /\ fsCollected' = Extend(fsCollected, result.items)
                    /\ fsPage' = fsPage + 1
                    /\ UNCHANGED <<fsPc, fsKw>>

\* pipeline.py:32, one page request of fetch_many for keywords[fsKw]
FsRequest ==
    /\ fsPc = "fetch"
    /\ fsKw <= Len(fsArgs.keywords)
    /\ \E resp \in FsResponses : FsPageStep(search(fsArgs.keywords[fsKw], resp))
    /\ UNCHANGED <<fsArgs, fsTable, fsTotal>>

\* pipeline.py:36-38 on what store_items gave
FsStoreStep(out) ==
    /\ fsTable' = out.table
    /\ IF out.kind = "raise"
       THEN /\ fsPc' = "raised"
            /\ fsExc' = Exc(out.exc)
            /\ UNCHANGED <<fsKw, fsPage, fsCollected, fsTotal, fsLog>>
       ELSE /\ fsTotal' = fsTotal + out.n
            /\ fsLog' = Append(fsLog, FsStored(fsKw, out.n, ItemKeys(RecordsOf(fsCollected))))
            /\ fsExc' = fsExc
            /\ FsNextKeyword

FsStore ==
    /\ fsPc = "store"
    /\ FsStoreStep(store_items(fsTable, fsCollected))
    /\ UNCHANGED fsArgs

\* pipeline.py:39, return total_items
FsReturn ==
    /\ fsPc = "fetch"
    /\ fsKw > Len(fsArgs.keywords)
    /\ fsPc' = "returned"
    /\ UNCHANGED <<fsArgs, fsKw, fsPage, fsCollected, fsTable, fsTotal, fsExc, fsLog>>

-----------------------------------------------------------------------------
(* pipeline.generate_and_store_creatives step by step: the generation for  *)
(* an item and the store_creatives that follows it are steps of their own. *)
(* The database can fail a statement for reasons of its own (connection    *)
(* lost, disk full): store_creatives then raises and its transaction is    *)
(* rolled back.                                                             *)

\* the items fetch_items returned, by item id, in the order it gave them
GsItemLists == {<<>>, <<1>>, <<2, 1>>, <<1, 2, 3>>}

\* the creatives table before the call
GsTables == {{}, {CreativeRow(0, 1, Creative(P_weibo, 1, <<"a">>))}}

\* the replies of the chat model: texts for weibo, texts for another
\* platform only, a JSON list
GsReplies ==
    PipelineReplies
    \cup {PStr(Dumps(JObj(<< <<P_xiaohongshu, JList(<<JStr(<<"a">>)>>)>> >>)))}

\* copywriter.generate(item, platforms=["weibo"], variants=n) on these
GsOutcomes == [n \in 1..2 |-> {generate(r, <<P_weibo>>, n) : r \in GsReplies}]

\* store_creatives on a database that is up, or not
store_creatives_skipping(up, table, rows) == StoreReturned(Len(rows), table)
store_creatives_on(up, table, rows) ==
    IF up \/ rows = <<>> THEN store_creatives(table, rows)
    ELSE StoreRaised("OperationalError", Rollback(table, table))

GsInit ==
    /\ gsArgs \in [items : GsItemLists, variants : 1..2, table : GsTables]
    /\ gsPc = "generate"
    /\ gsK = 1
    /\ gsGenerated = <<>>
    /\ gsAll = <<>>
    /\ gsStored = <<>>
    /\ gsTable = gsArgs.table
    /\ gsNextId = 1
    /\ gsExc = ""

GsIdle ==
    /\ gsArgs = [items |-> <<>>, variants |-> 1, table |-> {}]
    /\ gsPc = "returned"
    /\ gsK = 1
    /\ gsGenerated = <<>>
    /\ gsAll = <<>>
    /\ gsStored = <<>>
    /\ gsTable = {}
    /\ gsNextId = 1
    /\ gsExc = ""

\* pipeline.py:62-63 on what generate gave for items[gsK]
GsGenerateStep(out) ==
    IF out.kind = "raise"
    THEN /\ gsPc' = "raised"
         /\ gsExc' = out.exc
         /\ UNCHANGED <<gsGenerated, gsAll, gsNextId>>
    ELSE /\ gsPc' = "store"
         /\ gsGenerated' = FreshRows(out.creatives, gsArgs.items[gsK], gsNextId)
         /\ gsAll' = gsAll \o FreshRows(out.creatives, gsArgs.items[gsK], gsNextId)
         /\ gsNextId' = gsNextId + Len(out.creatives)
         /\ gsExc' = gsExc

GsGenerate ==
    /\ gsPc = "generate"
    /\ gsK <= Len(gsArgs.items)
    /\ \E out \in GsOutcomes[gsArgs.variants] : GsGenerateStep(out)
    /\ UNCHANGED <<gsArgs, gsK, gsStored, gsTable>>

\* pipeline.py:64 on what store_creatives gave
GsStoreStep(out) ==
    /\ gsTable' = out.table
    /\ IF out.kind = "raise"
       THEN /\ gsPc' = "raised"
            /\ gsExc' = out.exc
            /\ UNCHANGED <<gsK, gsStored>>
       ELSE /\ gsPc' = "generate"
            /\ gsK' = gsK + 1
            /\ gsStored' = gsStored \o gsGenerated
            /\ gsExc' = gsExc

GsStore ==
    /\ gsPc = "store"
    /\ \E up \in BOOLEAN : GsStoreStep(store_creatives_on(up, gsTable, gsGenerated))
    /\ UNCHANGED <<gsArgs, gsGenerated, gsAll, gsNextId>>

\* pipeline.py:55-57 and 65: return [] / return all_creatives
GsReturn ==
    /\ gsPc = "generate"
    /\ gsK > Len(gsArgs.items)
    /\ gsPc' = "returned"
    /\ UNCHANGED <<gsArgs, gsK, gsGenerated, gsAll, gsStored, gsTable, gsNextId, gsExc>>

-----------------------------------------------------------------------------
(* prompts.build_prompt, as far as the two price lines of the prompt go;   *)
(* the other fields of the template are copied from the Item.  "yen" is    *)
(* the currency sign, Unknown the sentinel text of prompts.py:22.          *)

Unknown == <<"unknown">>

\* a finite Decimal rounded to cents, ties to even (format spec ".2f")
Cents(v) ==
    LET q == v \div 100
        r == v % 100
    IN  IF r > 50 \/ (r = 50 /\ q % 2 = 1) THEN q + 1 ELSE q

TwoDigits(n) == <<Digits[(n \div 10) + 1], Digits[(n % 10) + 1]>>

\* f"{value:.2f}"
Fixed2(d) ==
    IF d.k = "nan" THEN <<"N", "a", "N">>
    ELSE IF d.k = "snan" THEN <<"s", "N", "a", "N">>
    ELSE IF d.k = "inf"
    THEN (IF d.v < 0 THEN <<"-">> ELSE <<>>) \o <<"I", "n", "f", "i", "n", "i", "t", "y">>
    ELSE LET c == Cents(IF d.v < 0 THEN -d.v ELSE d.v)
         IN  (IF d.v < 0 THEN <<"-">> ELSE <<>>)
                 \o NatStr(c \div 100) \o <<".">> \o TwoDigits(c % 100)

_format_price(value) ==
    IF value.k = "none" THEN Unknown ELSE <<"yen">> \o Fixed2(value)

\* Python's `a or b` on Decimal-or-None operands
DecOr(a, b) == IF DecTruthy(a) THEN a ELSE b

PromptPending == [kind |-> "pending", coupon_price |-> <<>>, price |-> <<>>]

\* lines 64-65 of build_prompt
build_prompt(item) ==
    [kind |-> "done",
     coupon_price |-> _format_price(DecOr(item.coupon_price, item.price)),
     price |-> _format_price(item.price)]

\* the prices an Item can hold: None, zero, amounts that round down and up,
\* a negative amount, NaN, Infinity
PromptPrices ==
    {NoneDec, Fin(0), Fin(50), Fin(150), Fin(15000), Fin(699000), Fin(799000),
     Fin(-10000), NaN, Inf(1)}

PromptInit ==
    /\ bpIn \in [price : PromptPrices, coupon_price : PromptPrices]
    /\ bpOut = PromptPending

PromptIdle ==
    /\ bpIn = [price |-> NoneDec, coupon_price |-> NoneDec]
    /\ bpOut = PromptPending

BuildPrompt ==
    /\ bpOut = PromptPending
    /\ bpOut' = build_prompt(bpIn)
    /\ UNCHANGED bpIn

-----------------------------------------------------------------------------
(* The specifications: one per operation, the others' state left alone.    *)

FetchNext ==
    \/ FetchPage /\ UNCHANGED <<signVars, reqVars, parseVars, genVars, storeVars, cfgVars, raceVars, fsVars, gsVars, bpVars>>
    \/ FetchReturn /\ UNCHANGED <<signVars, reqVars, parseVars, genVars, storeVars, cfgVars, raceVars, fsVars, gsVars, bpVars>>

InitFetch == FetchInit /\ SignIdle /\ RequestIdle /\ ParseIdle /\ GenIdle /\ StoreIdle /\ ConfigIdle /\ RaceIdle /\ FsIdle /\ GsIdle /\ PromptIdle

SpecFetch == InitFetch /\ [][FetchNext]_vars

SignNext ==
    \/ Reinsert /\ UNCHANGED <<fetchVars, reqVars, parseVars, genVars, storeVars, cfgVars, raceVars, fsVars, gsVars, bpVars>>
    \/ AddAbsent /\ UNCHANGED <<fetchVars, reqVars, parseVars, genVars, storeVars, cfgVars, raceVars, fsVars, gsVars, bpVars>>
    \/ DropAbsent /\ UNCHANGED <<fetchVars, reqVars, parseVars, genVars, storeVars, cfgVars, raceVars, fsVars, gsVars, bpVars>>
    \/ Sign /\ UNCHANGED <<fetchVars, reqVars, parseVars, genVars, storeVars, cfgVars, raceVars, fsVars, gsVars, bpVars>>

InitSign == SignInit /\ FetchIdle /\ RequestIdle /\ ParseIdle /\ GenIdle /\ StoreIdle /\ ConfigIdle /\ RaceIdle /\ FsIdle /\ GsIdle /\ PromptIdle

SpecSign == InitSign /\ [][SignNext]_vars

RequestNext == BuildRequest /\ UNCHANGED <<fetchVars, signVars, parseVars, genVars, storeVars, cfgVars, raceVars, fsVars, gsVars, bpVars>>

InitRequest == RequestInit /\ FetchIdle /\ SignIdle /\ ParseIdle /\ GenIdle /\ StoreIdle /\ ConfigIdle /\ RaceIdle /\ FsIdle /\ GsIdle /\ PromptIdle

SpecRequest == InitRequest /\ [][RequestNext]_vars

ParseNext == ParseItem /\ UNCHANGED <<fetchVars, signVars, reqVars, genVars, storeVars, cfgVars, raceVars, fsVars, gsVars, bpVars>>

InitParse == ParseInit /\ FetchIdle /\ SignIdle /\ RequestIdle /\ GenIdle /\ StoreIdle /\ ConfigIdle /\ RaceIdle /\ FsIdle /\ GsIdle /\ PromptIdle

SpecParse == InitParse /\ [][ParseNext]_vars

GenNext == Generate /\ UNCHANGED <<fetchVars, signVars, reqVars, parseVars, storeVars, cfgVars, raceVars, fsVars, gsVars, bpVars>>

InitGenerate == GenInit /\ FetchIdle /\ SignIdle /\ RequestIdle /\ ParseIdle /\ StoreIdle /\ ConfigIdle /\ RaceIdle /\ FsIdle /\ GsIdle /\ PromptIdle

SpecGenerate == InitGenerate /\ [][GenNext]_vars

coreVars == <<fetchVars, signVars, reqVars, parseVars, genVars>>

sideVars == <<coreVars, cfgVars, raceVars, fsVars, gsVars, bpVars>>

StoreNext ==
    \/ StoreItems /\ UNCHANGED sideVars
    \/ StoreCreatives /\ UNCHANGED sideVars
    \/ FetchAndStore /\ UNCHANGED sideVars
    \/ GenerateAndStore /\ UNCHANGED sideVars

InitStore == StoreInit /\ FetchIdle /\ SignIdle /\ RequestIdle /\ ParseIdle /\ GenIdle /\ ConfigIdle /\ RaceIdle /\ FsIdle /\ GsIdle /\ PromptIdle

SpecStore == InitStore /\ [][StoreNext]_vars

ConfigNext == LoadSettings /\ UNCHANGED <<coreVars, storeVars, raceVars, fsVars, gsVars, bpVars>>

InitConfig == ConfigInit /\ FetchIdle /\ SignIdle /\ RequestIdle /\ ParseIdle /\ GenIdle /\ StoreIdle /\ RaceIdle /\ FsIdle /\ GsIdle /\ PromptIdle

SpecConfig == InitConfig /\ [][ConfigNext]_vars

RaceNext ==
    \/ \E c \in Callers : Delete(c) /\ UNCHANGED <<coreVars, storeVars, cfgVars, fsVars, gsVars, bpVars>>
    \/ \E c \in Callers : DeleteResume(c) /\ UNCHANGED <<coreVars, storeVars, cfgVars, fsVars, gsVars, bpVars>>
    \/ \E c \in Callers : Insert(c) /\ UNCHANGED <<coreVars, storeVars, cfgVars, fsVars, gsVars, bpVars>>
    \/ \E c \in Callers : Commit(c) /\ UNCHANGED <<coreVars, storeVars, cfgVars, fsVars, gsVars, bpVars>>

InitRace == RaceInit /\ FetchIdle /\ SignIdle /\ RequestIdle /\ ParseIdle /\ GenIdle /\ StoreIdle /\ ConfigIdle /\ FsIdle /\ GsIdle /\ PromptIdle

SpecRace == InitRace /\ [][RaceNext]_vars

FsNext ==
    \/ FsRequest /\ UNCHANGED <<coreVars, storeVars, cfgVars, raceVars, gsVars, bpVars>>
    \/ FsStore /\ UNCHANGED <<coreVars, storeVars, cfgVars, raceVars, gsVars, bpVars>>
    \/ FsReturn /\ UNCHANGED <<coreVars, storeVars, cfgVars, raceVars, gsVars, bpVars>>

InitFetchStore == FsInit /\ FetchIdle /\ SignIdle /\ RequestIdle /\ ParseIdle /\ GenIdle /\ StoreIdle /\ ConfigIdle /\ RaceIdle /\ GsIdle /\ PromptIdle

SpecFetchStore == InitFetchStore /\ [][FsNext]_vars

GsNext ==
    \/ GsGenerate /\ UNCHANGED <<coreVars, storeVars, cfgVars, raceVars, fsVars, bpVars>>
    \/ GsStore /\ UNCHANGED <<coreVars, storeVars, cfgVars, raceVars, fsVars, bpVars>>
    \/ GsReturn /\ UNCHANGED <<coreVars, storeVars, cfgVars, raceVars, fsVars, bpVars>>

InitGenStore == GsInit /\ FetchIdle /\ SignIdle /\ RequestIdle /\ ParseIdle /\ GenIdle /\ StoreIdle /\ ConfigIdle /\ RaceIdle /\ FsIdle /\ PromptIdle

SpecGenStore == InitGenStore /\ [][GsNext]_vars

PromptNext == BuildPrompt /\ UNCHANGED <<coreVars, storeVars, cfgVars, raceVars, fsVars, gsVars>>

InitPrompt == PromptInit /\ FetchIdle /\ SignIdle /\ RequestIdle /\ ParseIdle /\ GenIdle /\ StoreIdle /\ ConfigIdle /\ RaceIdle /\ FsIdle /\ GsIdle

SpecPrompt == InitPrompt /\ [][PromptNext]_vars

-----------------------------------------------------------------------------
(* Properties of fetch_many (SpecFetch).                                   *)

IsRequest(e) == e.ev = "request"
RequestLog == SelectSeq(flog, IsRequest)

\* the SearchResult.items of the i-th page requested (empty when it raised)
PageItems(i) == search(fcfg.keyword, responses[i]).items
PageOk(i)    == search(fcfg.keyword, responses[i]).kind = "result"

\* the item ids of the non-empty entries of one upstream list, in upstream order
UpstreamIds(entries) ==
    LET kept == SelectSeq(entries, EntryTruthy)
    IN  [i \in 1..Len(kept) |-> DigitsVal(kept[i]["item_id"].s, 0)]

\* C1: fetch_many stops at the first short page: a page is requested only if
\* every earlier page of the call returned at least page_size items (so none
\* after a page with fewer, zero included), and the items of the last page,
\* short or not, are the end of the returned list.
C1_StopsAtFirstShortPage ==
    /\ Len(RequestLog) = Len(responses)
    /\ \A j \in 1..(Len(responses) - 1) :
          PageOk(j) /\ Len(PageItems(j)) >= fcfg.page_size
    /\ (fresult.kind = "return" /\ responses # <<>>) =>
          /\ PageOk(Len(responses))
          /\ Len(fresult.items) >= Len(PageItems(Len(responses)))
          /\ SubSeq(fresult.items,
                    Len(fresult.items) - Len(PageItems(Len(responses))) + 1,
                    Len(fresult.items)) = PageItems(Len(responses))

\* C1 witness: page 1 full, page 2 short but not empty, a third page allowed
\* and never requested, and the call has returned all three items.
C1_Witness ==
    /\ fresult.kind = "return"
    /\ fcfg.pages = 3 /\ fcfg.page_size = 2
    /\ Len(RequestLog) = 2
    /\ Len(PageItems(2)) = 1
    /\ Len(fresult.items) = 3

\* C2: the pages requested are 1, 2, ..., k in this order, each once, k <= pages,
\* and the returned list is the concatenation of the items of pages 1..k in page
\* order, each page in upstream order.
C2_PagesInOrderItemsConcatenated ==
    /\ Len(RequestLog) <= fcfg.pages
    /\ \A i \in 1..Len(RequestLog) : RequestLog[i].page_no = i
    /\ fresult.kind = "return" =>
          /\ fresult.items = Flatten([i \in 1..Len(responses) |-> PageItems(i)])
          /\ [i \in 1..Len(fresult.items) |-> fresult.items[i].item_id]
                = Flatten([i \in 1..Len(responses) |-> UpstreamIds(responses[i].entries)])

\* C2 witness: two pages returned, with different items, and concatenated.
C2_Witness ==
    /\ fresult.kind = "return"
    /\ Len(RequestLog) = 2
    /\ [i \in 1..Len(fresult.items) |-> fresult.items[i].item_id] = <<1, 2, 2>>

\* C3: a page whose decoded response holds an error envelope is the last page
\* requested, and fetch_many raises TaobaoAPIError with the upstream code and
\* message (msg, else sub_msg): it returns no list, whatever was collected.
C3_ErrorEnvelopePropagates ==
    \A i \in 1..Len(responses) :
        responses[i].err.present =>
            /\ i = Len(responses)
            /\ fpc = "raised"
            /\ fresult = Threw([type |-> "TaobaoAPIError",
                                code |-> responses[i].err.code,
                                message |-> IF responses[i].err.msg \in {NoneStr, ""}
                                            THEN responses[i].err.sub_msg
                                            ELSE responses[i].err.msg])

\* C3 witness: the envelope comes on page 2, after page 1 gave items, and its
\* message is the sub_msg.
C3_Witness ==
    /\ Len(responses) = 2
    /\ responses[2].err.present
    /\ responses[2].err.msg = ""
    /\ responses[2].err.sub_msg # NoneStr
    /\ collected # <<>>
    /\ fresult.kind = "raise"

-----------------------------------------------------------------------------
(* Properties of sign (SpecSign) and of the signed request (SpecRequest).  *)

\* the pairs of a mapping whose value is not None, as a set
PresentPairs(d) == {d[i] : i \in {j \in 1..Len(d) : d[j][2].t # "none"}}

\* a set of pairs with distinct names, smallest name first
RECURSIVE ByName(_)
ByName(pairs) ==
    IF pairs = {} THEN <<>>
    ELSE LET m == CHOOSE x \in pairs : \A y \in pairs : x = y \/ StrLess(x[1], y[1])
         IN  <<m>> \o ByName(pairs \ {m})

\* the digest of secret + name1 + value1 + ... + secret over the present pairs
ExpectedSignature(d, secret) ==
    LET ordered == ByName(PresentPairs(d)) IN
    Md5HexUpper(secret
                \o Flatten([i \in 1..Len(ordered) |->
                               ordered[i][1] \o Format(ordered[i][2])])
                \o secret)

\* C4: sign(params, secret) is the uppercase hex digest of secret + name1 +
\* value1 + ... + secret over the parameters whose value is not None, sorted by
\* name; so two mappings with the same present pairs, in any insertion order and
\* with any None-valued parameters added, have the same signature.
C4_SignSortedOrderIndependent ==
    sgOut.done =>
        /\ sgOut.sig1 = ExpectedSignature(sgIn.p1, sgIn.secret)
        /\ sgOut.sig2 = ExpectedSignature(sgIn.p2, sgIn.secret)
        /\ PresentPairs(sgIn.p1) = PresentPairs(sgIn.p2) => sgOut.sig1 = sgOut.sig2

\* C4 witness: a signed mapping of two present pairs inserted out of name
\* order, and the same pairs inserted the other way round with a None-valued
\* parameter added: one signature.
C4_Witness ==
    /\ sgOut.done
    /\ Cardinality(PresentPairs(sgIn.p1)) = 2
    /\ Len(sgIn.p1) = 2 /\ Len(sgIn.p2) = 3
    /\ sgIn.p1 # ByName(PresentPairs(sgIn.p1))
    /\ SelectSeq(sgIn.p2, NotNone) # sgIn.p1
    /\ sgOut.sig1 = sgOut.sig2

IsNotSign(pair) == pair[1] # K_sign

\* C5 (as claimed): every request built by search carries the fixed method,
\* the client's app_key, sign_method md5, format json, v 2.0 and the client's
\* adzone_id, and its sign is the signature of all the other parameters sent.
C5_RequestCarriesFixedParams ==
    rqOut # <<>> =>
        /\ DictGet(rqOut, K_method) = PStr(V_method)
        /\ DictGet(rqOut, K_app_key) = rqIn.client.app_key
        /\ DictGet(rqOut, K_sign_method) = PStr(V_md5)
        /\ DictGet(rqOut, K_format) = PStr(V_json)
        /\ DictGet(rqOut, K_v) = PStr(V_2_0)
        /\ DictGet(rqOut, K_adzone_id) = rqIn.client.adzone_id
        /\ DictGet(rqOut, K_sign)
              = PStr(sign(SelectSeq(rqOut, IsNotSign), rqIn.client.app_secret))

-----------------------------------------------------------------------------
(* Properties of _parse_item (SpecParse).                                  *)

FinalPrice   == _safe_decimal(raw["zk_final_price"])
ReservePrice == _safe_decimal(raw["reserve_price"])

\* a < b for two decimals that are ordered (no NaN)
DecLess(a, b) ==
    /\ a.k \in {"fin", "inf"} /\ b.k \in {"fin", "inf"}
    /\ \/ a.k = "fin" /\ b.k = "fin" /\ a.v < b.v
       \/ a.k = "inf" /\ a.v < 0 /\ ~(b.k = "inf" /\ b.v < 0)
       \/ b.k = "inf" /\ b.v > 0 /\ ~(a.k = "inf" /\ a.v > 0)

\* C6 (as claimed): the coupon price of every Item built is absent or >= 0,
\* with the coupon amount present or absent.  (A NaN is not counted as
\* negative here.)
C6_CouponPriceNeverNegative ==
    parsed.kind = "item" => ~DecLess(parsed.item.coupon_price, Fin(0))

\* C7 (as claimed): when price and coupon_price are both present,
\* coupon_price <= price.  (A NaN is not counted as exceeding.)
C7_CouponPriceAtMostPrice ==
    (/\ parsed.kind = "item"
     /\ parsed.item.price.k # "none"
     /\ parsed.item.coupon_price.k # "none")
        => ~DecLess(parsed.item.price, parsed.item.coupon_price)

IsIntegerText(f) ==
    /\ f.t = "str"
    /\ AllDigits(IF f.s # <<>> /\ Head(f.s) = "-" THEN Tail(f.s) ELSE f.s)

\* C9 (as claimed): an entry whose item_id is an integer always gives an Item,
\* whatever the other fields hold; only a missing or non-integer item_id raises.
C9_MalformedFieldNeverAborts ==
    parsed # Pending =>
        /\ IsIntegerText(raw["item_id"]) => parsed.kind = "item"
        /\ parsed.kind = "raise" => ~IsIntegerText(raw["item_id"])

-----------------------------------------------------------------------------
(* Properties of generate (SpecGenerate).                                  *)

IsNonEmpty(t) == t # <<>>

\* the usable texts of one platform in the object the reply was written from:
\* the non-empty trimmed texts of a list, a single string itself, else none
UsableTexts(platform) ==
    LET v == JGet(gIn.meant, platform) IN
    IF v.k = "list"
    THEN SelectSeq([i \in 1..Len(v.items) |-> Strip(PyStr(v.items[i]))], IsNonEmpty)
    ELSE IF v.k = "str" THEN <<Strip(v.s)>>
    ELSE <<>>

Min(a, b) == IF a < b THEN a ELSE b

\* the creatives of the listed platforms in list order, each platform's texts
\* in array order numbered from 1, at most `limit` per platform
ExpectedCreatives(limit) ==
    Flatten([i \in 1..Len(gIn.platforms) |->
                [j \in 1..Min(Len(UsableTexts(gIn.platforms[i])), limit) |->
                    Creative(gIn.platforms[i], j, UsableTexts(gIn.platforms[i])[j])]])

\* no array of the model's replies is as long as this
Unlimited == MaxTexts + 2

\* C10 (as claimed): for a reply that decodes to an object, generate returns,
\* platform by platform in list order, one creative per non-empty text of the
\* platform's list in array order, numbered 1..n; one for a single string;
\* none for a missing key or another type.
C10_OneCreativePerText ==
    (gOut # GenPending /\ gIn.meant.k = "dict") =>
        gOut = GenReturned(ExpectedCreatives(Unlimited))

\* C10 (amended): the same, but per platform only the first `variants` texts
\* give a creative (so a single string gives one only when variants >= 1).
C10_OneCreativePerTextUpToVariants ==
    (gOut # GenPending /\ gIn.meant.k = "dict") =>
        gOut = GenReturned(ExpectedCreatives(gIn.variants))

\* C10 witness: two platforms asked for in the order xiaohongshu, weibo; the
\* reply lists weibo first, with a blank text before a usable one, and three
\* texts for xiaohongshu of which two are kept.
C10_Witness ==
    /\ gOut.kind = "return"
    /\ gIn.meant.k = "dict"
    /\ gIn.platforms = <<P_xiaohongshu, P_weibo>>
    /\ gIn.variants = 2
    /\ JGet(gIn.meant, P_weibo) = JList(<<JStr(<<" ">>), JStr(<<" ", "b">>)>>)
    /\ gOut.creatives = <<Creative(P_xiaohongshu, 1, <<"c">>),
                          Creative(P_xiaohongshu, 2, <<"d">>),
                          Creative(P_weibo, 1, <<"b">>)>>

\* the creatives generate returned for one platform, in the order returned
OnPlatform(p) ==
    LET IsOn(c) == c.platform = p IN SelectSeq(gOut.creatives, IsOn)

ContentsOf(cs) == [i \in 1..Len(cs) |-> cs[i].content]

Platforms == {P_weibo, P_xiaohongshu}

\* C11 (as claimed): for every reply and every variants >= 0, generate returns
\* at most `variants` creatives for each platform, and when the reply holds
\* more usable texts than that for a requested platform, the creatives of the
\* platform are the first `variants` of them in their order.
C11_AtMostVariantsPerPlatform ==
    gOut.kind = "return" =>
        \A p \in Platforms :
            /\ Len(OnPlatform(p)) <= gIn.variants
            /\ (/\ gIn.meant.k = "dict"
                /\ \E i \in 1..Len(gIn.platforms) : gIn.platforms[i] = p
                /\ Len(UsableTexts(p)) > gIn.variants)
                  => ContentsOf(OnPlatform(p)) = SubSeq(UsableTexts(p), 1, gIn.variants)

\* the reply as _parse_response hands it to the JSON decoder does not decode
Undecodable == ~json_loads(Unfence(ContentOf(gIn.content))).ok

\* C12 (as claimed): when the fence-stripped reply is no JSON, generate returns
\* exactly one creative: on the first requested platform, with variant 1 and
\* the whole trimmed reply as content; no other platform gets one.
C12_UndecodableReplyGivesOneCreative ==
    (gOut # GenPending /\ Undecodable /\ gIn.platforms # <<>>) =>
        gOut = GenReturned(<<Creative(gIn.platforms[1], 1,
                                      Strip(ContentOf(gIn.content)))>>)

\* C13 (as claimed): whatever the reply (no JSON, empty, fenced, or JSON that
\* is no object), generate with a non-empty platform list completes and
\* returns a list of creatives.
C13_MalformedReplyNeverRaised ==
    (gOut # GenPending /\ gIn.platforms # <<>>) => gOut.kind = "return"

\* C14 (as claimed): every creative returned has content that is not empty
\* after trimming, and an empty or whitespace-only reply gives no creative.
C14_NoCreativeFromUnusableText ==
    gOut.kind = "return" =>
        /\ \A i \in 1..Len(gOut.creatives) : Strip(gOut.creatives[i].content) # <<>>
        /\ Strip(ContentOf(gIn.content)) = <<>> => gOut.creatives = <<>>

\* C15 (as claimed): no two creatives returned by one generate call have the
\* same platform and the same variant index, whatever the platform list (one
\* naming a platform twice included) and the reply.
C15_VariantUniquePerPlatform ==
    gOut.kind = "return" =>
        \A i, j \in 1..Len(gOut.creatives) :
            i # j => <<gOut.creatives[i].platform, gOut.creatives[i].variant>>
                        # <<gOut.creatives[j].platform, gOut.creatives[j].variant>>

-----------------------------------------------------------------------------
(* Properties of the storage calls (SpecStore).                            *)

OneRowPerItemId == \A r1, r2 \in dbItems : r1.item_id = r2.item_id => r1 = r2

\* the table after a batch replaced the rows of its ids
Replaced(table, batch) ==
    {r \in table : \A i \in 1..Len(batch) : r.item_id # batch[i].item_id}
    \cup {ItemRecord(batch[i]).row : i \in 1..Len(batch)}

\* C16: a store_items(batch) that returns leaves the table as it was, less
\* every row with an id of the batch, plus the one record of each batch item
\* (so nothing of an earlier row with such an id is left, and the rows of
\* other ids are untouched); whatever the calls made, the table never holds
\* two rows with one item id.
C16_StoreItemsReplacesWholesale ==
    /\ []OneRowPerItemId
    /\ [][(dbCall'.op = "store_items" /\ dbCall'.kind = "return") =>
            \A batch \in Batches :
                StoreItemsCall(batch) =>
                    /\ dbItems' = Replaced(dbItems, batch)
                    /\ \A i \in 1..Len(batch) :
                          Cardinality({r \in dbItems' : r.item_id = batch[i].item_id}) = 1]_vars

\* C16 witness: a store_items under keyword k2 returned after its DELETE
\* matched the row of item 1, which now carries k2; the row of item 2, written
\* under k1, is still there.
C16_Witness ==
    /\ dbCall.op = "store_items" /\ dbCall.kind = "return" /\ dbCall.deleted = 1
    /\ \E r \in dbItems : r.item_id = 1 /\ r.category = "k2" /\ r.tags = "k2"
    /\ \E r \in dbItems : r.item_id = 2 /\ r.category = "k1"

\* C17: a store_items that raises leaves table taoke_items as it was before
\* the call, its delete undone; a store_creatives that raises leaves table
\* creatives as it was.
C17_FailedStoreChangesNothing ==
    [][/\ (dbCall'.op = "store_items" /\ dbCall'.kind = "raise") => dbItems' = dbItems
       /\ (dbCall'.op = "store_creatives" /\ dbCall'.kind = "raise")
              => dbCreatives' = dbCreatives]_vars

\* C17 witness: a store_items whose batch named one id twice raised the
\* primary-key error after its DELETE had matched a row, and the table still
\* holds rows.
C17_Witness ==
    /\ dbCall.op = "store_items" /\ dbCall.kind = "raise"
    /\ dbCall.exc = "IntegrityError" /\ dbCall.deleted >= 1
    /\ dbItems # {}

\* C19: no call removes or changes a row of table creatives: the rows before a
\* step are rows after it; and a generate_and_store_creatives adds one new row
\* per creative generated, whatever rows of the same item, platform and
\* variant are there already.
C19_CreativesInsertOnly ==
    [][/\ dbCreatives \subseteq dbCreatives'
       /\ dbCall'.op = "generate_and_store_creatives" =>
              Cardinality(dbCreatives') = Cardinality(dbCreatives) + (dbNextId' - dbNextId)]_vars

\* C19 witness: after a second generation two rows of item 1 have the same
\* platform and variant index, and the item's row was replaced meanwhile.
C19_Witness ==
    /\ dbCall.op = "generate_and_store_creatives"
    /\ \E r1, r2 \in dbCreatives :
          /\ r1.creative_id # r2.creative_id
          /\ r1.item_id = 1 /\ r2.item_id = 1
          /\ r1.platform = r2.platform /\ r1.variant = r2.variant
    /\ \E r \in dbItems : r.item_id = 1 /\ r.category = "k2"


-----------------------------------------------------------------------------
(* Properties of two concurrent store_items calls (SpecRace).              *)

SharedIds ==
    {rcTx[1].batch[i].item_id : i \in 1..Len(rcTx[1].batch)}
    \cap {rcTx[2].batch[i].item_id : i \in 1..Len(rcTx[2].batch)}

RowsOf(id) == {r \in rcItems : r.item_id = id}

\* C18: whatever the interleaving of the two calls' delete and insert
\* steps, neither call raises, and once both have ended the table holds
\* for every item id the two batches share exactly one row, the one of the
\* call that committed last.
C18_LastCommitterWins ==
    /\ \A c \in Callers : rcTx[c].pc # "raised"
    /\ (\A c \in Callers : Ended(c)) =>
           \A id \in SharedIds :
               RowsOf(id) = {r \in RecordsOf(rcTx[rcCommits[Len(rcCommits)]].batch) :
                                r.item_id = id}

-----------------------------------------------------------------------------
(* Properties of load_settings (SpecConfig).                               *)

Configured(v) == ~Falsy(v)

\* the provider named by the override, else by the environment
ConfiguredProvider ==
    IF Configured(cfgIn.ov.copy_provider) THEN cfgIn.ov.copy_provider
    ELSE IF Configured(cfgIn.env.hotflow_copy_provider) THEN cfgIn.env.hotflow_copy_provider
    ELSE NoneStr

DeepseekKeyConfigured ==
    Configured(cfgIn.ov.deepseek_api_key) \/ Configured(cfgIn.env.deepseek_api_key)
OpenAIKeyPresent ==
    Configured(cfgIn.ov.openai_api_key) \/ Configured(cfgIn.env.openai_api_key)

NoModelOrURLAnywhere ==
    \A m \in {cfgIn.ov, cfgIn.env} :
        \A f \in {"openai_model", "deepseek_model", "openai_base_url", "deepseek_base_url"} :
            ~Configured(m[f])

NoOpenAIModelOrURL ==
    \A m \in {cfgIn.ov, cfgIn.env} :
        \A f \in {"openai_model", "openai_base_url"} : ~Configured(m[f])

DeepseekDefaults ==
    (ConfiguredProvider = "deepseek" /\ DeepseekKeyConfigured /\ NoModelOrURLAnywhere) =>
        /\ cfgOut.llm.provider = "deepseek"
        /\ cfgOut.llm.model = "deepseek-chat"
        /\ cfgOut.llm.base_url = "https://api.deepseek.com"

OpenAIDefaults ==
    /\ cfgOut.llm.provider = "openai"
    /\ cfgOut.llm.model = "gpt-4o-mini"
    /\ Falsy(cfgOut.llm.base_url)

\* C20, as stated: on a load_settings that returns, provider deepseek with
\* a deepseek key and no model or base URL configured anywhere gives
\* provider deepseek, model deepseek-chat and the deepseek base URL; no
\* provider configured and an OpenAI key present gives provider openai,
\* model gpt-4o-mini and no base URL.
C20_ProviderSelectionAsStated ==
    cfgOut.kind = "return" =>
        /\ DeepseekDefaults
        /\ (ConfiguredProvider = NoneStr /\ OpenAIKeyPresent) => OpenAIDefaults

\* C20, amended: the OpenAI half gives model gpt-4o-mini and no base URL
\* when, besides, no OpenAI model and no OpenAI base URL is configured.
C20_ProviderSelection ==
    cfgOut.kind = "return" =>
        /\ DeepseekDefaults
        /\ (ConfiguredProvider = NoneStr /\ OpenAIKeyPresent /\ NoOpenAIModelOrURL) =>
               OpenAIDefaults

C20_Witness ==
    /\ cfgOut.kind = "return"
    /\ cfgIn.ov.copy_provider = "deepseek"
    /\ cfgIn.env.hotflow_copy_provider = NoneStr
    /\ cfgIn.env.deepseek_api_key = "ds-key"
    /\ cfgIn.env.openai_api_key = "test-key"
    /\ NoModelOrURLAnywhere
    /\ cfgOut.llm = LLMSettings("ds-key", "deepseek-chat", "0.7", "https://api.deepseek.com", "deepseek")

-----------------------------------------------------------------------------
(* Properties of fetch_many's sleeps (SpecFetch).                          *)

FetchEnded == fpc \in {"returned", "raised"}

\* C21: fetch_many sleeps only between two page requests of one call: a
\* sleep is for a nonzero delay and is followed by another page request,
\* so the last thing a call that has ended did is a request, not a sleep,
\* also when the last page requested was page number `pages` and full.
C21_SleepsOnlyBetweenRequests ==
    /\ \A i \in 1..Len(flog) : flog[i].ev = "sleep" => fcfg.delay # 0
    /\ \A i \in 1..(Len(flog) - 1) : flog[i].ev = "sleep" => flog[i + 1].ev = "request"
    /\ (FetchEnded /\ flog # <<>>) => flog[Len(flog)].ev = "request"

-----------------------------------------------------------------------------
(* Properties of fetch_and_store (SpecFetchStore).                         *)

\* the log is keyword by keyword in the given order; a keyword's requests
\* are pages 1, 2, ... and its store, if any, comes after all of them
FsInOrder ==
    \A i, j \in 1..Len(fsLog) : i < j =>
        /\ fsLog[i].kw <= fsLog[j].kw
        /\ fsLog[i].ev = "store" => fsLog[i].kw < fsLog[j].kw
        /\ (fsLog[i].kw = fsLog[j].kw /\ j = i + 1 /\ fsLog[j].ev = "request") =>
               fsLog[j].page = fsLog[i].page + 1

\* a keyword that the loop has left and whose pages gave items was stored
FsLeftKeywordsStored ==
    \A i \in 1..Len(fsLog) :
        (fsLog[i].ev = "request" /\ fsLog[i].got > 0 /\ fsLog[i].kw < fsKw) =>
            \E j \in 1..Len(fsLog) : fsLog[j].ev = "store" /\ fsLog[j].kw = fsLog[i].kw

\* an error envelope ends the call: the request that met it is the last
\* thing done, its keyword was not stored, the exception is the upstream's
FsErrorEndsCall ==
    \A i \in 1..Len(fsLog) : fsLog[i].got = -1 =>
        /\ i = Len(fsLog)
        /\ fsPc = "raised"
        /\ fsExc = [type |-> "TaobaoAPIError", code |-> "15", message |-> "Remote service error"]
        /\ \A j \in 1..Len(fsLog) : fsLog[j].ev = "store" => fsLog[j].kw < fsLog[i].kw
        /\ \A j \in 1..Len(fsLog) : fsLog[j].ev = "store" => fsLog[j].ids \subseteq ItemKeys(fsTable)

\* C22: fetch_and_store takes the keywords in the given order and stores a
\* keyword's items only after all of its pages were fetched; an error
\* envelope on a page of keyword k leaves the call as that error, with the
\* items of the keywords before k still stored, nothing stored for k (the
\* table is as the last store left it) and nothing done after it.
C22_KeywordsInOrderErrorStopsAll ==
    /\ [](FsInOrder /\ FsLeftKeywordsStored /\ FsErrorEndsCall)
    /\ [][/\ fsPc \notin {"raised", "returned"}
          /\ fsTable' # fsTable => (fsPc = "store" /\ fsPc' # "raised")
          /\ fsPc = "store" => fsLog'[Len(fsLog')].kw = fsKw]_vars

\* C22 witness: three keywords; the first was fetched and stored, the second
\* gave a full first page and an error envelope on its second page.
C22_Witness ==
    /\ fsPc = "raised"
    /\ fsExc.type = "TaobaoAPIError"
    /\ Len(fsArgs.keywords) = 3
    /\ fsKw = 2
    /\ Len(fsLog) = 4
    /\ fsLog[2].ev = "store"
    /\ fsLog[3] = FsRequested(2, 1, 2)
    /\ fsLog[4] = FsRequested(2, 2, -1)
    /\ fsCollected # <<>>
    /\ fsTable # fsArgs.table

-----------------------------------------------------------------------------
(* Properties of generate_and_store_creatives (SpecGenStore).              *)

GsRows(rows) == {rows[i] : i \in 1..Len(rows)}

\* the index in the item list of the item a creative row belongs to
GsIndexOf(row) == CHOOSE k \in 1..Len(gsArgs.items) : gsArgs.items[k] = row.item_id

\* C23: the creatives of each item are committed right after they are
\* generated, item by item.  What the table holds beyond what it held
\* before the call is always exactly the creatives of the items the loop
\* has left, in item order; it is all that was generated whenever the next
\* item's generation starts; so a failure of the generation or the storage
\* for the k-th item leaves the earlier items' creatives stored and nothing
\* of the k-th or a later item, and the list returned when all succeed is
\* the list of stored creatives.
C23_StoredItemByItem ==
    /\ gsTable = gsArgs.table \cup GsRows(gsStored)
    /\ Cardinality(gsTable) = Cardinality(gsArgs.table) + Len(gsStored)
    /\ \A i \in 1..Len(gsStored) : GsIndexOf(gsStored[i]) < gsK
    /\ \A i, j \in 1..Len(gsStored) : i < j => GsIndexOf(gsStored[i]) <= GsIndexOf(gsStored[j])
    /\ gsPc \in {"generate", "returned"} => gsAll = gsStored
    /\ gsPc = "store" => gsAll = gsStored \o gsGenerated
    /\ gsPc = "raised" =>
           \A r \in gsTable \ gsArgs.table : \A k \in gsK..Len(gsArgs.items) :
               r.item_id # gsArgs.items[k]

\* C23 witness: three items; the first item's two creatives are stored, the
\* second item's were generated and their storage failed.
C23_Witness ==
    /\ gsPc = "raised"
    /\ gsExc = "OperationalError"
    /\ Len(gsArgs.items) = 3
    /\ gsK = 2
    /\ Len(gsStored) = 2
    /\ gsGenerated # <<>>
    /\ gsArgs.table # {}
    /\ Cardinality(gsTable) = 3

-----------------------------------------------------------------------------
(* Properties of build_prompt (SpecPrompt).                                *)

\* C24: the coupon price line of the prompt is the Item's coupon_price as
\* currency with two decimals whenever coupon_price is present, a coupon
\* price of zero giving "yen 0.00", and the unknown sentinel when
\* coupon_price is absent.
C24_CouponLineFromCouponPrice ==
    bpOut.kind = "done" =>
        /\ bpIn.coupon_price.k # "none" =>
               bpOut.coupon_price = <<"yen">> \o Fixed2(bpIn.coupon_price)
        /\ bpIn.coupon_price = Fin(0) =>
               bpOut.coupon_price = <<"yen", "0", ".", "0", "0">>
        /\ bpIn.coupon_price.k = "none" => bpOut.coupon_price = Unknown

=========================================================================
